---------------------------- MODULE Spec2Model ----------------------------
(***************************************************************************)
(* Formula engine of the online spreadsheet (FormulaEngine.ts): lexer,     *)
(* recursive-descent parser, tree evaluator, dependency graph and the      *)
(* recalculation walk.                                                     *)
(*                                                                         *)
(* JavaScript strings are sequences of one-character strings, so that the  *)
(* lexer scans them character by character.  JavaScript numbers are exact  *)
(* rationals n/d in lowest terms, extended with NaN and +/-Infinity; the   *)
(* rounding of doubles is not represented.                                 *)
(***************************************************************************)
EXTENDS Integers, Sequences, FiniteSets, TLC

(***************************************************************************)
(* Characters and strings                                                  *)
(***************************************************************************)
UpperSeq == <<"A","B","C","D","E","F","G","H","I","J","K","L","M",
              "N","O","P","Q","R","S","T","U","V","W","X","Y","Z">>

LowerSeq == <<"a","b","c","d","e","f","g","h","i","j","k","l","m",
              "n","o","p","q","r","s","t","u","v","w","x","y","z">>

DigitSeq == <<"0","1","2","3","4","5","6","7","8","9">>

Range(s) == {s[i] : i \in 1..Len(s)}

Upper == Range(UpperSeq)

Lower == Range(LowerSeq)

Digit == Range(DigitSeq)

\* /\s/
WhiteSpace == {" ", "\t", "\n"}

IndexIn(c, s) == CHOOSE i \in 1..Len(s) : s[i] = c

\* '7' -> 7
DigitVal(c) == IndexIn(c, DigitSeq) - 1

\* String.prototype.toLowerCase, one character
LowerChar(c) == IF c \in Upper THEN LowerSeq[IndexIn(c, UpperSeq)] ELSE c

ToLowerCase(s) == [i \in 1..Len(s) |-> LowerChar(s[i])]

\* the value `undefined` where a string is optional
UNDEF == <<"undefined">>

\* truthiness of an optional string: neither undefined nor ''
TruthyStr(s) == s # UNDEF /\ s # <<>>

RECURSIVE NatToStr(_)
NatToStr(n) ==
  IF n < 10 THEN <<DigitSeq[n + 1]>>
  ELSE NatToStr(n \div 10) \o <<DigitSeq[(n % 10) + 1]>>

\* `${n}` for an integer n
IntToStr(n) == IF n < 0 THEN <<"-">> \o NatToStr(-n) ELSE NatToStr(n)

RECURSIVE TrimLeft(_)
TrimLeft(s) ==
  IF s # <<>> /\ Head(s) \in WhiteSpace THEN TrimLeft(Tail(s)) ELSE s

RECURSIVE TrimRight(_)
TrimRight(s) ==
  IF s # <<>> /\ s[Len(s)] \in WhiteSpace
  THEN TrimRight(SubSeq(s, 1, Len(s) - 1)) ELSE s

\* String.prototype.trim
Trim(s) == TrimRight(TrimLeft(s))

(***************************************************************************)
(* Numbers: [t |-> "num", n, d] is n/d in lowest terms with d > 0;         *)
(* [t |-> "inf", n] is Infinity (n = 1) or -Infinity (n = -1);             *)
(* [t |-> "nan"] is NaN; [t |-> "irr"] stands for a finite result that is  *)
(* not rational (square root of a non-square, fractional power).           *)
(* Every value carries the same fields so that values compare.             *)
(***************************************************************************)
Abs(x) == IF x < 0 THEN -x ELSE x

Sign(x) == IF x < 0 THEN -1 ELSE IF x > 0 THEN 1 ELSE 0

RECURSIVE GCD(_, _)
GCD(a, b) == IF b = 0 THEN a ELSE GCD(b, a % b)

Mk(t, n, d, s) == [t |-> t, n |-> n, d |-> d, s |-> s]

NaN == Mk("nan", 0, 1, <<>>)

Inf(sg) == Mk("inf", sg, 1, <<>>)

Irr == Mk("irr", 0, 1, <<>>)

\* n/d brought to lowest terms, d # 0
Rat(n, d) ==
  LET g == GCD(Abs(n), Abs(d))
      sg == IF d < 0 THEN -1 ELSE 1
  IN Mk("num", sg * (n \div g), sg * (d \div g), <<>>)

Num(n) == Mk("num", n, 1, <<>>)

Str(s) == Mk("str", 0, 1, s)

Bool(b) == Mk("bool", IF b THEN 1 ELSE 0, 1, <<>>)

Undefined == Mk("undef", 0, 1, <<>>)

IsNumber(v) == v.t \in {"num", "inf", "nan", "irr"}

IsZero(x) == x.t = "num" /\ x.n = 0

\* sign of a number that is not NaN
SignOf(x) == IF x.t = "irr" THEN 1 ELSE Sign(x.n)

Neg(x) ==
  CASE x.t = "num" -> Rat(-x.n, x.d)
    [] x.t = "inf" -> Inf(-x.n)
    [] OTHER -> x

Add(x, y) ==
  CASE x.t = "nan" \/ y.t = "nan" -> NaN
    [] x.t = "inf" /\ y.t = "inf" -> IF x.n = y.n THEN x ELSE NaN
    [] x.t = "inf" -> x
    [] y.t = "inf" -> y
    [] x.t = "irr" \/ y.t = "irr" -> Irr
    [] OTHER -> Rat(x.n * y.d + y.n * x.d, x.d * y.d)

Sub(x, y) == Add(x, Neg(y))

Mul(x, y) ==
  CASE x.t = "nan" \/ y.t = "nan" -> NaN
    [] x.t = "inf" \/ y.t = "inf" ->
         IF IsZero(x) \/ IsZero(y) THEN NaN ELSE Inf(SignOf(x) * SignOf(y))
    [] IsZero(x) \/ IsZero(y) -> Num(0)
    [] x.t = "irr" \/ y.t = "irr" -> Irr
    [] OTHER -> Rat(x.n * y.n, x.d * y.d)

\* x / y of JavaScript
Div(x, y) ==
  CASE x.t = "nan" \/ y.t = "nan" -> NaN
    [] x.t = "inf" /\ y.t = "inf" -> NaN
    [] x.t = "inf" -> Inf(x.n * (IF SignOf(y) < 0 THEN -1 ELSE 1))
    [] y.t = "inf" -> Num(0)
    [] IsZero(y) -> IF IsZero(x) THEN NaN ELSE Inf(SignOf(x))
    [] IsZero(x) -> Num(0)
    [] x.t = "irr" \/ y.t = "irr" -> Irr
    [] OTHER -> Rat(x.n * y.d, x.d * y.n)

\* integer part of n/d, rounded toward zero
Trunc(n, d) == Sign(n) * (Abs(n) \div d)

\* x % y of JavaScript: the remainder takes the sign of the dividend
Mod(x, y) ==
  CASE x.t = "nan" \/ y.t = "nan" -> NaN
    [] x.t = "inf" -> NaN
    [] IsZero(y) -> NaN
    [] y.t = "inf" -> x
    [] x.t = "irr" \/ y.t = "irr" -> Irr
    [] OTHER ->
         LET q == Div(x, y)
         IN Sub(x, Mul(y, Num(Trunc(q.n, q.d))))

RECURSIVE IntPow(_, _)
IntPow(b, e) == IF e = 0 THEN 1 ELSE b * IntPow(b, e - 1)

Less(x, y) == x.n * y.d < y.n * x.d

\* Math.pow
Pow(x, y) ==
  CASE y.t = "nan" -> NaN
    [] IsZero(y) -> Num(1)
    [] x.t = "nan" -> NaN
    [] y.t = "inf" ->
         IF x.t = "num" /\ Abs(x.n) = x.d THEN NaN
         ELSE IF (x.t = "num" /\ Abs(x.n) < x.d) = (y.n > 0)
              THEN Num(0) ELSE Inf(1)
    [] x.t = "inf" ->
         IF SignOf(y) < 0 THEN Num(0)
         ELSE IF x.n < 0 /\ y.t = "num" /\ y.d = 1 /\ y.n % 2 = 1
              THEN Inf(-1) ELSE Inf(1)
    [] x.t = "irr" \/ y.t = "irr" -> Irr
    [] y.d = 1 /\ y.n > 0 -> Rat(IntPow(x.n, y.n), IntPow(x.d, y.n))
    [] y.d = 1 /\ IsZero(x) -> Inf(1)
    [] y.d = 1 -> Rat(IntPow(x.d, -y.n), IntPow(x.n, -y.n))
    [] x.n < 0 -> NaN
    [] IsZero(x) -> IF y.n > 0 THEN Num(0) ELSE Inf(1)
    [] x.n = x.d -> Num(1)
    [] OTHER -> Irr

IsSquare(n) == \E r \in 0..n : r * r = n

Root(n) == CHOOSE r \in 0..n : r * r = n

\* Math.sqrt
Sqrt(x) ==
  CASE x.t = "nan" -> NaN
    [] x.t = "inf" -> IF x.n > 0 THEN x ELSE NaN
    [] x.t = "irr" -> Irr
    [] x.n < 0 -> NaN
    [] IsSquare(x.n) /\ IsSquare(x.d) -> Rat(Root(x.n), Root(x.d))
    [] OTHER -> Irr

\* Math.abs
MathAbs(x) ==
  CASE x.t = "num" -> Rat(Abs(x.n), x.d)
    [] x.t = "inf" -> Inf(1)
    [] OTHER -> x

\* floor of n/d, d > 0
Floor(n, d) == IF n >= 0 THEN n \div d ELSE -((-n + d - 1) \div d)

\* Math.round: floor(x + 0.5)
MathRound(x) ==
  IF x.t = "num" THEN Num(Floor(2 * x.n + x.d, 2 * x.d)) ELSE x

\* Math.max of two numbers
Max2(x, y) ==
  CASE x.t = "nan" \/ y.t = "nan" -> NaN
    [] x.t = "inf" -> IF x.n > 0 THEN x ELSE y
    [] y.t = "inf" -> IF y.n > 0 THEN y ELSE x
    [] x.t = "irr" \/ y.t = "irr" -> Irr
    [] OTHER -> IF Less(x, y) THEN y ELSE x

\* Math.min of two numbers
Min2(x, y) ==
  CASE x.t = "nan" \/ y.t = "nan" -> NaN
    [] x.t = "inf" -> IF x.n < 0 THEN x ELSE y
    [] y.t = "inf" -> IF y.n < 0 THEN y ELSE x
    [] x.t = "irr" \/ y.t = "irr" -> Irr
    [] OTHER -> IF Less(y, x) THEN y ELSE x

(***************************************************************************)
(* parseFloat and the coercions of the evaluator                           *)
(***************************************************************************)
RECURSIVE DigitsEnd(_, _)
\* first index >= i of s that holds no digit
DigitsEnd(s, i) ==
  IF i <= Len(s) /\ s[i] \in Digit THEN DigitsEnd(s, i + 1) ELSE i

RECURSIVE DigitsValue(_, _, _)
\* the decimal number written in s[i..j-1]
DigitsValue(s, i, j) ==
  IF j <= i THEN 0
  ELSE 10 * DigitsValue(s, i, j - 1) + DigitVal(s[j - 1])

InfinityText == <<"I","n","f","i","n","i","t","y">>

\* sg * mant * 10^ex, the exponent negated when exNeg
FloatScaled(sg, mant, exNeg, ex) ==
  LET scaled == IF exNeg THEN Div(mant, Num(IntPow(10, ex)))
                ELSE Mul(mant, Num(IntPow(10, ex)))
  IN IF sg < 0 THEN Neg(scaled) ELSE scaled

\* the exponent part e[+-]digits, if any, at index mEnd after the mantissa
FloatExponent(s, sg, mant, mEnd) ==
  LET hasE == mEnd <= Len(s) /\ s[mEnd] \in {"e", "E"}
      eSigned == hasE /\ mEnd + 1 <= Len(s) /\ s[mEnd + 1] \in {"+", "-"}
      e0 == IF eSigned THEN mEnd + 2 ELSE mEnd + 1
  IN FloatScaled(sg, mant, eSigned /\ s[mEnd + 1] = "-",
                 IF hasE THEN DigitsValue(s, e0, DigitsEnd(s, e0)) ELSE 0)

\* the mantissa: integer digits s[i0..i1-1], fraction digits s[i1+1..f1-1];
\* without a digit the text is Infinity or no number
FloatMantissa(s, sg, i0, i1, f1) ==
  LET hasDot == i1 <= Len(s) /\ s[i1] = "."
      f0 == i1 + 1
      fracLen == f1 - f0
  IN IF i1 > i0 \/ (hasDot /\ fracLen > 0)
     THEN FloatExponent(s, sg,
            Rat(DigitsValue(s, i0, i1) * IntPow(10, fracLen)
                  + DigitsValue(s, f0, f1),
                IntPow(10, fracLen)),
            IF hasDot THEN f1 ELSE i1)
     ELSE IF Len(s) >= i0 + 7 /\ SubSeq(s, i0, i0 + 7) = InfinityText
          THEN Inf(sg)
          ELSE NaN

\* the digits before and after the decimal point
FloatDigits(s, sg, i0, i1) ==
  FloatMantissa(s, sg, i0, i1,
                IF i1 <= Len(s) /\ s[i1] = "." THEN DigitsEnd(s, i1 + 1)
                ELSE i1 + 1)

\* parseFloat(s): the longest prefix that is a decimal literal
ParseFloat(str) ==
  LET s == TrimLeft(str)
      signed == s # <<>> /\ s[1] \in {"+", "-"}
      i0 == IF signed THEN 2 ELSE 1
  IN FloatDigits(s, IF signed /\ s[1] = "-" THEN -1 ELSE 1, i0,
                 DigitsEnd(s, i0))

\* the parsed number as it is, NaN included
NaNKept(num) == num

\* isNaN(num) ? 0 : num
NaNToZero(num) == IF num.t = "nan" THEN Num(0) ELSE num

\* FormulaEvaluator.toNumber
toNumber(value) ==
  IF IsNumber(value) THEN value
  ELSE IF value.t = "str" THEN NaNToZero(ParseFloat(value.s))
       ELSE IF value.t = "bool" THEN (IF value.n = 1 THEN Num(1) ELSE Num(0))
            ELSE Num(0)

\* the truthiness JavaScript gives a value in `v ? a : b` and `v || 0`
Truthy(v) ==
  CASE v.t = "num" -> v.n # 0
    [] v.t = "inf" -> TRUE
    [] v.t = "irr" -> TRUE
    [] v.t = "nan" -> FALSE
    [] v.t = "str" -> v.s # <<>>
    [] v.t = "bool" -> v.n = 1
    [] OTHER -> FALSE

(***************************************************************************)
(* FormulaLexer.  Positions are the 0-based indices of the source; the     *)
(* character at position p is input[p + 1].                                *)
(***************************************************************************)
Token(type, value, position) ==
  [type |-> type, value |-> value, position |-> position]

\* the constructor: trim, then drop one leading '='
LexerInput(formula) ==
  LET t == Trim(formula)
  IN IF t # <<>> /\ t[1] = "=" THEN Tail(t) ELSE t

\* this.current at this.position: '' past the end
Current(input, pos) == IF pos < Len(input) THEN input[pos + 1] ELSE ""

RECURSIVE ReadWhile(_, _, _)
\* the position reached by advancing while the current character is in cls
ReadWhile(input, pos, cls) ==
  IF Current(input, pos) # "" /\ Current(input, pos) \in cls
  THEN ReadWhile(input, pos + 1, cls) ELSE pos

skipWhitespace(input, pos) == ReadWhile(input, pos, WhiteSpace)

\* /\d/ or '.'
NumberChars == Digit \cup {"."}

\* the end position of readNumber
readNumber(input, pos) == ReadWhile(input, pos, NumberChars)

\* /[A-Za-z0-9$:]/
CellReferenceChars == Upper \cup Lower \cup Digit \cup {"$", ":"}

\* the end position of readCellReference
readCellReference(input, pos) == ReadWhile(input, pos, CellReferenceChars)

\* readString: [value, position after the string]
readString(input, pos) ==
  LET start == pos + 1
      stop == CHOOSE p \in start..Len(input) :
                /\ \A q \in start..(p - 1) : Current(input, q) # "\""
                /\ (p = Len(input) \/ Current(input, p) = "\"")
  IN [value |-> SubSeq(input, start + 1, stop),
      pos |-> IF Current(input, stop) = "\"" THEN stop + 1 ELSE stop]

\* /^[A-Z]+\d+$/
IsSingleRef(v) ==
  \E k \in 1..(Len(v) - 1) :
    /\ \A i \in 1..k : v[i] \in Upper
    /\ \A i \in (k + 1)..Len(v) : v[i] \in Digit

\* FormulaLexer.isCellReference
isCellReference(v) ==
  \/ IsSingleRef(v)
  \/ \E c \in 1..Len(v) :
       /\ v[c] = ":"
       /\ IsSingleRef(SubSeq(v, 1, c - 1))
       /\ IsSingleRef(SubSeq(v, c + 1, Len(v)))

OperatorChars == {"+", "-", "*", "/", "^", "%"}

RECURSIVE TokenizeLoop(_, _, _)
\* the while loop of tokenize: [tokens, position at exit]
TokenizeLoop(input, position, tokens) ==
  IF ~(position < Len(input)) THEN [tokens |-> tokens, pos |-> position]
  ELSE
    LET startPos == skipWhitespace(input, position)
        cur == Current(input, startPos)
        text(e) == SubSeq(input, startPos + 1, e)
    IN IF cur = "" THEN [tokens |-> tokens, pos |-> startPos]
       ELSE IF cur \in Digit THEN
         LET e == readNumber(input, startPos)
         IN TokenizeLoop(input, e,
              Append(tokens, Token("NUMBER", text(e), startPos)))
       ELSE IF cur = "\"" THEN
         LET r == readString(input, startPos)
         IN TokenizeLoop(input, r.pos,
              Append(tokens, Token("STRING", r.value, startPos)))
       ELSE IF cur \in Upper THEN
         LET e == readCellReference(input, startPos)
         IN TokenizeLoop(input, e,
              Append(tokens,
                Token(IF isCellReference(text(e)) THEN "CELL_REF"
                      ELSE "FUNCTION", text(e), startPos)))
       ELSE IF cur \in OperatorChars THEN
         TokenizeLoop(input, startPos + 1,
           Append(tokens, Token("OPERATOR", <<cur>>, startPos)))
       ELSE IF cur \in {"(", ")"} THEN
         TokenizeLoop(input, startPos + 1,
           Append(tokens, Token("PARENTHESIS", <<cur>>, startPos)))
       ELSE IF cur = "," THEN
         TokenizeLoop(input, startPos + 1,
           Append(tokens, Token("COMMA", <<cur>>, startPos)))
       ELSE TokenizeLoop(input, startPos + 1, tokens)

\* tokenize without the closing tokens.push of the EOF token
tokenizeUnterminated(formula) == TokenizeLoop(LexerInput(formula), 0, <<>>).tokens

\* new FormulaLexer(formula).tokenize()
tokenize(formula) ==
  LET input == LexerInput(formula)
      r == TokenizeLoop(input, 0, <<>>)
  IN Append(r.tokens, Token("EOF", <<>>, r.pos))

(***************************************************************************)
(* FormulaParser.  The parser state is the token list and this.position;   *)
(* this.currentToken is tokens[position] while position is inside the      *)
(* list and stays on the last token once position has run past it.         *)
(* A parse returns [ok, node, pos]; ok = FALSE is a thrown Error.  The     *)
(* value of a node is a number or a string value.                          *)
(***************************************************************************)
Node(type, value, children) ==
  [type |-> type, value |-> value, children |-> children]

NoNode == Node("none", Undefined, <<>>)

Parsed(node, pos) == [ok |-> TRUE, node |-> node, pos |-> pos]

ParseError(pos) == [ok |-> FALSE, node |-> NoNode, pos |-> pos]

currentToken(tokens, pos) ==
  IF pos < Len(tokens) THEN tokens[pos + 1] ELSE tokens[Len(tokens)]

\* FormulaParser.expect: the position after the token, or a throw
expect(tokens, pos, type) ==
  IF currentToken(tokens, pos).type # type THEN ParseError(pos)
  ELSE Parsed(NoNode, pos + 1)

\* node = { type: 'BinaryOp', value: operator, children: [node, right] };
\* a throw of the right operand leaves the loop
FoldRight(operator, left, right) ==
  IF ~right.ok THEN right
  ELSE Parsed(Node("BinaryOp", Str(operator), <<left.node, right.node>>),
              right.pos)

\* { type: 'BinaryOp', value: operator, children: [this.parsePrimary(),
\* right] }: the base is parsed after the exponent
PowerNode(operator, right, left) ==
  IF ~left.ok THEN left
  ELSE Parsed(Node("BinaryOp", Str(operator), <<left.node, right.node>>),
              left.pos)

\* this.expect(TokenType.PARENTHESIS); return node
Parenthesized(tokens, inner) ==
  IF ~inner.ok THEN inner
  ELSE LET close == expect(tokens, inner.pos, "PARENTHESIS")
       IN IF ~close.ok THEN close ELSE Parsed(inner.node, close.pos)

\* { type: 'UnaryOp', value: '-', children: [node] }
Negated(operand) ==
  IF ~operand.ok THEN operand
  ELSE Parsed(Node("UnaryOp", Str(<<"-">>), <<operand.node>>), operand.pos)

\* const args = []: [ok, node |-> Node("args", _, the arguments), pos]
NoArguments(pos) == Parsed(Node("args", Undefined, <<>>), pos)

\* args.push(this.parseExpression())
PushArgument(args, arg) ==
  IF ~arg.ok THEN arg
  ELSE Parsed(Node("args", Undefined, Append(args.node.children, arg.node)),
              arg.pos)

\* the closing expect of parseFunction and the node it returns
FunctionNode(tokens, functionName, args) ==
  IF ~args.ok THEN args
  ELSE LET close == expect(tokens, args.pos, "PARENTHESIS")
       IN IF ~close.ok THEN close
          ELSE Parsed(Node("Function", Str(functionName), args.node.children),
                      close.pos)

RECURSIVE parseExpression(_, _), ExpressionLoop(_, _), parseTerm(_, _),
          TermLoop(_, _), parseFactor(_, _), PowerBase(_, _, _),
          parsePrimary(_, _), parseFunction(_, _), ArgumentLoop(_, _)

parseExpression(tokens, pos) == ExpressionLoop(tokens, parseTerm(tokens, pos))

\* the while loop of parseExpression; left is the node parsed so far with
\* the position after it, or a throw
ExpressionLoop(tokens, left) ==
  IF left.ok /\ currentToken(tokens, left.pos).value \in {<<"+">>, <<"-">>}
  THEN ExpressionLoop(tokens,
         FoldRight(currentToken(tokens, left.pos).value, left,
                   parseTerm(tokens, left.pos + 1)))
  ELSE left

parseTerm(tokens, pos) == TermLoop(tokens, parseFactor(tokens, pos))

\* parseTerm's loop folding '+' and '-' as well: no level of its own for
\* the multiplicative operators
TermLoopAllOperators(tokens, left) ==
  IF left.ok /\ currentToken(tokens, left.pos).value
                  \in {<<"*">>, <<"/">>, <<"%">>, <<"+">>, <<"-">>}
  THEN TermLoop(tokens,
         FoldRight(currentToken(tokens, left.pos).value, left,
                   parseFactor(tokens, left.pos + 1)))
  ELSE left

\* the while loop of parseTerm
TermLoop(tokens, left) ==
  IF left.ok /\ currentToken(tokens, left.pos).value
                  \in {<<"*">>, <<"/">>, <<"%">>}
  THEN TermLoop(tokens,
         FoldRight(currentToken(tokens, left.pos).value, left,
                   parseFactor(tokens, left.pos + 1)))
  ELSE left

parseFactor(tokens, pos) ==
  IF currentToken(tokens, pos).value = <<"^">>
  THEN PowerBase(tokens, currentToken(tokens, pos).value,
                 parseFactor(tokens, pos + 1))
  ELSE parsePrimary(tokens, pos)

\* parseFactor after the exponent `right`: the base is the primary that
\* follows it
PowerBase(tokens, operator, right) ==
  IF ~right.ok THEN right
  ELSE PowerNode(operator, right, parsePrimary(tokens, right.pos))

parsePrimary(tokens, pos) ==
  LET tok == currentToken(tokens, pos)
  IN IF tok.type = "NUMBER"
     THEN Parsed(Node("Number", ParseFloat(tok.value), <<>>), pos + 1)
     ELSE IF tok.type = "STRING"
     THEN Parsed(Node("String", Str(tok.value), <<>>), pos + 1)
     ELSE IF tok.type = "CELL_REF"
     THEN Parsed(Node("CellRef", Str(tok.value), <<>>), pos + 1)
     ELSE IF tok.type = "FUNCTION"
     THEN parseFunction(tokens, pos)
     ELSE IF tok.value = <<"(">>
     THEN Parenthesized(tokens, parseExpression(tokens, pos + 1))
     ELSE IF tok.value = <<"-">>
     THEN Negated(parsePrimary(tokens, pos + 1))
     ELSE ParseError(pos)

\* the while loop of parseFunction over the arguments after the first
ArgumentLoop(tokens, args) ==
  IF args.ok /\ currentToken(tokens, args.pos).value = <<",">>
  THEN ArgumentLoop(tokens,
         PushArgument(args, parseExpression(tokens, args.pos + 1)))
  ELSE args

parseFunction(tokens, pos) ==
  LET open == expect(tokens, pos + 1, "PARENTHESIS")
  IN IF ~open.ok THEN open
     ELSE FunctionNode(tokens, currentToken(tokens, pos).value,
            IF currentToken(tokens, open.pos).value # <<")">>
            THEN ArgumentLoop(tokens,
                   PushArgument(NoArguments(open.pos),
                                parseExpression(tokens, open.pos)))
            ELSE NoArguments(open.pos))

\* FormulaParser.parse
parse(tokens) == parseExpression(tokens, 0)

(***************************************************************************)
(* FormulaEvaluator.  The value store cellData is a function from the keys *)
(* it holds to entries [value, formula]; a key outside its domain is an    *)
(* absent property.  An evaluation returns [ok, val]; ok = FALSE is a      *)
(* thrown Error.                                                           *)
(***************************************************************************)
Entry(value, formula) == [value |-> value, formula |-> formula]

Value(v) == [ok |-> TRUE, val |-> v]

EvalError == [ok |-> FALSE, val |-> Undefined]

RECURSIVE columnLetterToNumberLoop(_, _, _)
\* the for loop of columnLetterToNumber
columnLetterToNumberLoop(letters, i, result) ==
  IF i > Len(letters) THEN result
  ELSE columnLetterToNumberLoop(letters, i + 1,
         result * 26 + IndexIn(letters[i], UpperSeq))

\* the column number without the final "- 1"
columnLetterToNumberOneBased(letters) ==
  columnLetterToNumberLoop(letters, 1, 0)

\* charCodeAt(i) - 64 is the rank of an uppercase letter, 'A' being 1
columnLetterToNumber(letters) == columnLetterToNumberLoop(letters, 1, 0) - 1

\* FormulaEvaluator.parseCellReference: [ok, row, col]
parseCellReference(cellRef) ==
  IF ~IsSingleRef(cellRef) THEN [ok |-> FALSE, row |-> 0, col |-> 0]
  ELSE LET k == CHOOSE k \in 1..(Len(cellRef) - 1) :
                  /\ \A i \in 1..k : cellRef[i] \in Upper
                  /\ \A i \in (k + 1)..Len(cellRef) : cellRef[i] \in Digit
       IN [ok |-> TRUE,
           row |-> DigitsValue(cellRef, k + 1, Len(cellRef) + 1) - 1,
           col |-> columnLetterToNumber(SubSeq(cellRef, 1, k))]

\* `${row},${col}`
StoreKey(row, col) == IntToStr(row) \o <<",">> \o IntToStr(col)

\* FormulaEvaluator.evaluateCellRef
evaluateCellRef(cellRef, cellData) ==
  LET cellPos == parseCellReference(cellRef)
      key == StoreKey(cellPos.row, cellPos.col)
  IN IF ~cellPos.ok THEN EvalError
     ELSE IF key \in DOMAIN cellData /\ Truthy(cellData[key].value)
          THEN Value(cellData[key].value)
          ELSE Value(Num(0))

\* evaluateBinaryOp without the test of the divisor
BinaryOpResultUnchecked(operator, leftNum, rightNum) ==
  CASE operator = <<"+">> -> Value(Add(leftNum, rightNum))
    [] operator = <<"-">> -> Value(Sub(leftNum, rightNum))
    [] operator = <<"*">> -> Value(Mul(leftNum, rightNum))
    [] operator = <<"/">> -> Value(Div(leftNum, rightNum))
    [] operator = <<"%">> -> Value(Mod(leftNum, rightNum))
    [] operator = <<"^">> -> Value(Pow(leftNum, rightNum))
    [] OTHER -> EvalError

\* the switch of evaluateBinaryOp over the coerced operands
BinaryOpResult(operator, leftNum, rightNum) ==
  CASE operator = <<"+">> -> Value(Add(leftNum, rightNum))
    [] operator = <<"-">> -> Value(Sub(leftNum, rightNum))
    [] operator = <<"*">> -> Value(Mul(leftNum, rightNum))
    [] operator = <<"/">> ->
         IF IsZero(rightNum) THEN EvalError
         ELSE Value(Div(leftNum, rightNum))
    [] operator = <<"%">> -> Value(Mod(leftNum, rightNum))
    [] operator = <<"^">> -> Value(Pow(leftNum, rightNum))
    [] OTHER -> EvalError

RECURSIVE SumOf(_, _)
\* args.reduce((sum, val) => sum + this.toNumber(val), 0) up to index i
SumOf(args, i) ==
  IF i = 0 THEN Num(0) ELSE Add(SumOf(args, i - 1), toNumber(args[i]))

RECURSIVE MaxOf(_, _)
\* Math.max over the first i arguments; -Infinity for none
MaxOf(args, i) ==
  IF i = 0 THEN Inf(-1) ELSE Max2(MaxOf(args, i - 1), toNumber(args[i]))

RECURSIVE MinOf(_, _)
\* Math.min over the first i arguments; Infinity for none
MinOf(args, i) ==
  IF i = 0 THEN Inf(1) ELSE Min2(MinOf(args, i - 1), toNumber(args[i]))

FnSum == <<"s","u","m">>

FnAverage == <<"a","v","e","r","a","g","e">>

FnMax == <<"m","a","x">>

FnMin == <<"m","i","n">>

FnCount == <<"c","o","u","n","t">>

FnIf == <<"i","f">>

FnAbs == <<"a","b","s">>

FnRound == <<"r","o","u","n","d">>

FnSqrt == <<"s","q","r","t">>

FnPower == <<"p","o","w","e","r">>

\* args[i - 1] of JavaScript: undefined past the end
ArgAt(args, i) == IF i <= Len(args) THEN args[i] ELSE Undefined

\* evaluateFunction whose IF takes any number of arguments
FunctionResultLooseIf(functionName, args) ==
  LET name == ToLowerCase(functionName)
      n == Len(args)
  IN CASE name = FnSum -> Value(SumOf(args, n))
       [] name = FnAverage -> Value(Div(SumOf(args, n), Num(n)))
       [] name = FnMax -> Value(MaxOf(args, n))
       [] name = FnMin -> Value(MinOf(args, n))
       [] name = FnCount -> Value(Num(n))
       [] name = FnIf ->
            Value(IF Truthy(ArgAt(args, 1)) THEN ArgAt(args, 2)
                  ELSE ArgAt(args, 3))
       [] name = FnAbs ->
            IF n # 1 THEN EvalError ELSE Value(MathAbs(toNumber(args[1])))
       [] name = FnRound ->
            IF n # 2 THEN EvalError
            ELSE LET scale == Pow(Num(10), toNumber(args[2]))
                 IN Value(Div(MathRound(Mul(toNumber(args[1]), scale)), scale))
       [] name = FnSqrt ->
            IF n # 1 THEN EvalError ELSE Value(Sqrt(toNumber(args[1])))
       [] name = FnPower ->
            IF n # 2 THEN EvalError
            ELSE Value(Pow(toNumber(args[1]), toNumber(args[2])))
       [] OTHER -> EvalError

\* the switch of evaluateFunction over the evaluated arguments
FunctionResult(functionName, args) ==
  LET name == ToLowerCase(functionName)
      n == Len(args)
  IN CASE name = FnSum -> Value(SumOf(args, n))
       [] name = FnAverage -> Value(Div(SumOf(args, n), Num(n)))
       [] name = FnMax -> Value(MaxOf(args, n))
       [] name = FnMin -> Value(MinOf(args, n))
       [] name = FnCount -> Value(Num(n))
       [] name = FnIf ->
            IF n # 3 THEN EvalError
            ELSE Value(IF Truthy(args[1]) THEN args[2] ELSE args[3])
       [] name = FnAbs ->
            IF n # 1 THEN EvalError ELSE Value(MathAbs(toNumber(args[1])))
       [] name = FnRound ->
            IF n # 2 THEN EvalError
            ELSE LET scale == Pow(Num(10), toNumber(args[2]))
                 IN Value(Div(MathRound(Mul(toNumber(args[1]), scale)), scale))
       [] name = FnSqrt ->
            IF n # 1 THEN EvalError ELSE Value(Sqrt(toNumber(args[1])))
       [] name = FnPower ->
            IF n # 2 THEN EvalError
            ELSE Value(Pow(toNumber(args[1]), toNumber(args[2])))
       [] OTHER -> EvalError

RECURSIVE evaluate(_, _), evaluateAll(_, _, _, _)

\* ast.children.map(child => this.evaluate(child)): [ok, vals]; the first
\* child that throws ends the map
evaluateAll(children, i, vals, cellData) ==
  IF i > Len(children) THEN [ok |-> TRUE, vals |-> vals]
  ELSE LET r == evaluate(children[i], cellData)
       IN IF ~r.ok THEN [ok |-> FALSE, vals |-> vals]
          ELSE evaluateAll(children, i + 1, Append(vals, r.val), cellData)

\* FormulaEvaluator.evaluate with evaluateBinaryOp, evaluateUnaryOp and
\* evaluateFunction
evaluate(ast, cellData) ==
  CASE ast.type = "Number" -> Value(ast.value)
    [] ast.type = "String" -> Value(ast.value)
    [] ast.type = "CellRef" -> evaluateCellRef(ast.value.s, cellData)
    [] ast.type = "BinaryOp" ->
         LET left == evaluate(ast.children[1], cellData)
             right == evaluate(ast.children[2], cellData)
         IN IF ~left.ok THEN left
            ELSE IF ~right.ok THEN right
            ELSE BinaryOpResult(ast.value.s, toNumber(left.val),
                                toNumber(right.val))
    [] ast.type = "UnaryOp" ->
         LET operand == evaluate(ast.children[1], cellData)
         IN IF ~operand.ok THEN operand
            ELSE IF ast.value.s = <<"-">>
                 THEN Value(Neg(toNumber(operand.val)))
            ELSE EvalError
    [] ast.type = "Function" ->
         LET args == evaluateAll(ast.children, 1, <<>>, cellData)
         IN IF ~args.ok THEN EvalError
            ELSE FunctionResult(ast.value.s, args.vals)
    [] OTHER -> EvalError

(***************************************************************************)
(* FormulaEngine.  A JavaScript Set is a sequence without repetition in    *)
(* insertion order; the dependency graph is a function from the cell       *)
(* references that have a node to their DependencyNode.  The engine state  *)
(* handed from one call to the next is [cellData, dependencyGraph].        *)
(***************************************************************************)
\* Array.prototype.push in place of Set.prototype.add
ArrayPush(set, x) == Append(set, x)

\* Set.prototype.add
SetAdd(set, x) == IF x \in Range(set) THEN set ELSE Append(set, x)

\* Map.prototype.set and the assignment obj[k] = v
Put(map, k, v) == [x \in DOMAIN map \cup {k} |-> IF x = k THEN v ELSE map[x]]

DependencyNode(cellRef, formula) ==
  [cellRef |-> cellRef, dependencies |-> <<>>, dependents |-> <<>>,
   formula |-> formula]

Engine(cellData, graph) == [cellData |-> cellData, dependencyGraph |-> graph]

RECURSIVE CellRefValues(_, _)
\* the values of the CELL_REF tokens among the first i tokens
CellRefValues(tokens, i) ==
  IF i = 0 THEN <<>>
  ELSE IF tokens[i].type = "CELL_REF"
       THEN Append(CellRefValues(tokens, i - 1), tokens[i].value)
       ELSE CellRefValues(tokens, i - 1)

\* FormulaEngine.extractDependencies
extractDependencies(formula) ==
  LET tokens == tokenize(formula) IN CellRefValues(tokens, Len(tokens))

RECURSIVE AddDependencies(_, _, _, _)
\* the forEach recording the reverse edge only for a dependency whose node
\* it has just created
AddDependenciesNewOnly(graph, cellRef, dependencies, i) ==
  IF i > Len(dependencies) THEN graph
  ELSE LET dep == dependencies[i]
           g1 == [graph EXCEPT ![cellRef].dependencies = SetAdd(@, dep)]
           g2 == IF dep \notin DOMAIN g1
                 THEN Put(g1, dep,
                          [DependencyNode(dep, UNDEF)
                             EXCEPT !.dependents = <<cellRef>>])
                 ELSE g1
       IN AddDependencies(g2, cellRef, dependencies, i + 1)

\* the forEach of updateDependencyGraph from the i-th dependency on
AddDependencies(graph, cellRef, dependencies, i) ==
  IF i > Len(dependencies) THEN graph
  ELSE LET dep == dependencies[i]
           g1 == [graph EXCEPT ![cellRef].dependencies = SetAdd(@, dep)]
           g2 == IF dep \notin DOMAIN g1
                 THEN Put(g1, dep, DependencyNode(dep, UNDEF)) ELSE g1
           g3 == [g2 EXCEPT ![dep].dependents = SetAdd(@, cellRef)]
       IN AddDependencies(g3, cellRef, dependencies, i + 1)

\* FormulaEngine.updateDependencyGraph: the graph afterwards
updateDependencyGraph(graph, cellRef, formula) ==
  LET dependencies == extractDependencies(formula)
      g1 == IF cellRef \notin DOMAIN graph
            THEN Put(graph, cellRef, DependencyNode(cellRef, formula))
            ELSE graph
      g2 == [g1 EXCEPT ![cellRef].dependencies = <<>>]
  IN AddDependencies(g2, cellRef, dependencies, 1)

\* the '#ERROR' sentinel
ErrorValue == Str(<<"#","E","R","R","O","R">>)

\* what a call hands back: the engine state after it, the value returned
\* and whether an Error left the call
Outcome(cellData, graph, result, thrown) ==
  [cellData |-> cellData, dependencyGraph |-> graph, result |-> result,
   thrown |-> thrown]

\* calculate without its catch clause: the Error leaves the call
CalculateRethrow(formula, cellRef, eng) ==
  Outcome(eng.cellData, eng.dependencyGraph, Undefined, TRUE)

\* a catch clause that also stores the sentinel in the cell
CalculateCatchStoring(formula, cellRef, eng) ==
  Outcome(Put(eng.cellData, cellRef, Entry(ErrorValue, formula)),
          eng.dependencyGraph, ErrorValue, FALSE)

\* the catch clause of calculate
CalculateCatch(formula, cellRef, eng) ==
  Outcome(eng.cellData, eng.dependencyGraph, ErrorValue, FALSE)

\* the end of the try block: updateDependencyGraph and return result, or
\* the catch clause when the evaluation has thrown
CalculateEvaluated(formula, cellRef, eng, result) ==
  IF ~result.ok THEN CalculateCatch(formula, cellRef, eng)
  ELSE Outcome(eng.cellData,
               updateDependencyGraph(eng.dependencyGraph, cellRef, formula),
               result.val, FALSE)

\* the try block after parser.parse(): evaluate, or the catch clause when
\* the parser has thrown
CalculateParsed(formula, cellRef, eng, ast) ==
  IF ~ast.ok THEN CalculateCatch(formula, cellRef, eng)
  ELSE CalculateEvaluated(formula, cellRef, eng,
                          evaluate(ast.node, eng.cellData))

\* FormulaEngine.calculate
calculate(formula, cellRef, eng) ==
  CalculateParsed(formula, cellRef, eng, parse(tokenize(formula)))

\* { value: newValue } without the spread of the old entry
SpreadValueDropping(cellData, dependent, newValue) == Entry(newValue, UNDEF)

\* { ...this.cellData[dependent], value: newValue }
SpreadValue(cellData, dependent, newValue) ==
  IF dependent \in DOMAIN cellData
  THEN [cellData[dependent] EXCEPT !.value = newValue]
  ELSE Entry(newValue, UNDEF)

\* the state of a recalculateDependents walk; `recomputed` logs the cells
\* the walk has recalculated, `expanded` the cells whose dependents it has
\* run through
Walk(eng, stack, visited, recomputed, expanded) ==
  [eng |-> eng, stack |-> stack, visited |-> visited,
   recomputed |-> recomputed, expanded |-> expanded]

\* the forEach body for a dependent with a formula: c is what calculate
\* handed back; the value is stored, the dependent pushed on the stack
StoreRecalculated(w, dependent, c) ==
  Walk(Engine(Put(c.cellData, dependent,
                  SpreadValue(c.cellData, dependent, c.result)),
              c.dependencyGraph),
       Append(w.stack, dependent), w.visited,
       Append(w.recomputed, dependent), w.expanded)

RECURSIVE DependentsLoop(_, _, _)
\* currentNode.dependents.forEach(...) from the i-th dependent on.  The
\* only member a pass of the loop adds to a dependents set is the dependent
\* it is visiting, so the set iterated is the set at the start of the loop.
DependentsLoop(w, dependents, i) ==
  IF i > Len(dependents) THEN w
  ELSE LET graph == w.eng.dependencyGraph
           dependent == dependents[i]
       IN IF dependent \in DOMAIN graph
             /\ TruthyStr(graph[dependent].formula)
          THEN DependentsLoop(
                 StoreRecalculated(w, dependent,
                   calculate(graph[dependent].formula, dependent, w.eng)),
                 dependents, i + 1)
          ELSE DependentsLoop(w, dependents, i + 1)

\* a pass of the while loop without the test of `visited`
RecalculateStepRevisit(w) ==
  LET current == w.stack[Len(w.stack)]
      popped == SubSeq(w.stack, 1, Len(w.stack) - 1)
  IN IF current \in DOMAIN w.eng.dependencyGraph
     THEN DependentsLoop(
            Walk(w.eng, popped, w.visited \cup {current}, w.recomputed,
                 Append(w.expanded, current)),
            w.eng.dependencyGraph[current].dependents, 1)
     ELSE Walk(w.eng, popped, w.visited \cup {current}, w.recomputed,
               w.expanded)

\* one pass of the while loop of recalculateDependents
RecalculateStep(w) ==
  LET current == w.stack[Len(w.stack)]
      popped == SubSeq(w.stack, 1, Len(w.stack) - 1)
  IN IF current \in w.visited
     THEN Walk(w.eng, popped, w.visited, w.recomputed, w.expanded)
     ELSE IF current \in DOMAIN w.eng.dependencyGraph
          THEN DependentsLoop(
                 Walk(w.eng, popped, w.visited \cup {current}, w.recomputed,
                      Append(w.expanded, current)),
                 w.eng.dependencyGraph[current].dependents, 1)
          ELSE Walk(w.eng, popped, w.visited \cup {current}, w.recomputed,
                    w.expanded)

RECURSIVE RecalculateLoop(_)
\* the while loop of recalculateDependents
RecalculateLoop(w) ==
  IF w.stack = <<>> THEN w ELSE RecalculateLoop(RecalculateStep(w))

\* recalculateDependents before its loop: nothing to walk without a node
StartWalk(cellRef, eng) ==
  IF cellRef \notin DOMAIN eng.dependencyGraph
  THEN Walk(eng, <<>>, {}, <<>>, <<>>)
  ELSE Walk(eng, <<cellRef>>, {}, <<>>, <<>>)

\* FormulaEngine.recalculateDependents: the walk at its end
recalculateDependents(cellRef, eng) == RecalculateLoop(StartWalk(cellRef, eng))

\* updateCellData before the recalculation: the entry is written and, with
\* a formula, the graph updated
UpdatedEngine(cellRef, value, formula, eng) ==
  Engine(Put(eng.cellData, cellRef, Entry(value, formula)),
         IF TruthyStr(formula)
         THEN updateDependencyGraph(eng.dependencyGraph, cellRef, formula)
         ELSE eng.dependencyGraph)

\* FormulaEngine.updateCellData: the walk at its end
updateCellData(cellRef, value, formula, eng) ==
  recalculateDependents(cellRef, UpdatedEngine(cellRef, value, formula, eng))

Cycle(result, visited, recursionStack) ==
  [result |-> result, visited |-> visited, recursionStack |-> recursionStack]

RECURSIVE hasCycle(_, _, _, _), DependenciesLoop(_, _, _, _, _)

\* the for loop of hasCycle over node.dependencies from the i-th on
DependenciesLoop(graph, dependencies, i, visited, recursionStack) ==
  IF i > Len(dependencies) THEN Cycle(FALSE, visited, recursionStack)
  ELSE LET r == hasCycle(graph, dependencies[i], visited, recursionStack)
       IN IF r.result THEN r
          ELSE DependenciesLoop(graph, dependencies, i + 1, r.visited,
                                r.recursionStack)

\* hasCycle testing `visited` before `recursionStack`
hasCycleVisitedFirst(graph, cellRef, visited, recursionStack) ==
  IF cellRef \in visited THEN Cycle(FALSE, visited, recursionStack)
  ELSE IF cellRef \in recursionStack THEN Cycle(TRUE, visited, recursionStack)
  ELSE LET v1 == visited \cup {cellRef}
           s1 == recursionStack \cup {cellRef}
       IN IF cellRef \in DOMAIN graph
          THEN LET r == DependenciesLoop(graph, graph[cellRef].dependencies,
                                         1, v1, s1)
               IN IF r.result THEN r
                  ELSE Cycle(FALSE, r.visited, r.recursionStack \ {cellRef})
          ELSE Cycle(FALSE, v1, s1 \ {cellRef})

\* FormulaEngine.hasCycle; the two sets are shared by all recursive calls
hasCycle(graph, cellRef, visited, recursionStack) ==
  IF cellRef \in recursionStack THEN Cycle(TRUE, visited, recursionStack)
  ELSE IF cellRef \in visited THEN Cycle(FALSE, visited, recursionStack)
  ELSE LET v1 == visited \cup {cellRef}
           s1 == recursionStack \cup {cellRef}
       IN IF cellRef \in DOMAIN graph
          THEN LET r == DependenciesLoop(graph, graph[cellRef].dependencies,
                                         1, v1, s1)
               IN IF r.result THEN r
                  ELSE Cycle(FALSE, r.visited, r.recursionStack \ {cellRef})
          ELSE Cycle(FALSE, v1, s1 \ {cellRef})

\* FormulaEngine.checkCircularDependency
checkCircularDependency(cellRef, graph) ==
  hasCycle(graph, cellRef, {}, {}).result

(***************************************************************************)
(* The engine as a state machine: one action per public method.  `last`    *)
(* records the latest call, what it handed back, the cells the call        *)
(* recomputed, and whether the call before it was the same call.  `walk`   *)
(* is the recalculateDependents loop of an updateCellData call in progress *)
(* where the loop is followed pass by pass.                                *)
(***************************************************************************)
VARIABLES cellData, dependencyGraph, last, steps, walk

\* the state of the Vuex store of the workbook
VARIABLES state

\* a LazyLoader: its fields, the calls of its loadFn and the load() calls
\* issued on it
VARIABLES loader, loadFn, callers

vars ==
  <<cellData, dependencyGraph, last, steps, walk, state, loader, loadFn,
    callers>>

\* what the formula engine leaves alone
others == <<state, loader, loadFn, callers>>

\* the store as created: one empty worksheet, no history
StoreCreated ==
  state = [worksheets |-> <<[name |-> "Sheet1", rows |-> 100, cols |-> 100,
                             cells |-> <<>>]>>,
           activeWorksheetIndex |-> 0, history |-> <<>>, historyIndex |-> -1]

\* a LazyLoader as constructed, its loadFn not called, no load() issued
LoaderCreated ==
  /\ loader = [promise |-> 0, value |-> 0, loaded |-> FALSE]
  /\ loadFn = [calls |-> 0, pending |-> {}, fulfilled |-> {}, resolved |-> {},
               rejected |-> {}]
  /\ callers = <<>>

\* calls of calculate and updateCellData made on one engine
MaxSteps == 2

A1 == <<"A", "1">>

B1 == <<"B", "1">>

\* the store key of A1, as the grid writes it
KeyA1 == <<"0", ",", "0">>

FormulaA1Plus1 == <<"=", "A", "1", "+", "1">>

FormulaB1Plus1 == <<"=", "B", "1", "+", "1">>

FormulaOne == <<"=", "1">>

FormulaA1DivZero == <<"=", "A", "1", "/", "0">>

FormulaUnclosed == <<"=", "(", "B", "1", "+">>

\* cell identifiers callers pass: spreadsheet references and "row,col" keys
CellRefs == {A1, B1, KeyA1}

\* formula texts stored in cells
Formulas == {FormulaA1Plus1, FormulaB1Plus1, FormulaOne, FormulaA1DivZero}

\* formula texts handed to calculate
CalculateFormulas == Formulas \cup {FormulaUnclosed}

Values == {Num(5)}

\* the stores an engine is constructed over
InitialStores == { <<>>, Put(<<>>, KeyA1, Entry(Num(1), UNDEF)) }

Call(op, cellRef, formula, value, result, thrown, recomputed) ==
  [op |-> op, cellRef |-> cellRef, formula |-> formula, value |-> value,
   result |-> result, thrown |-> thrown, recomputed |-> recomputed,
   repeat |-> last.op = op /\ last.cellRef = cellRef
              /\ last.formula = formula /\ last.value = value]

NoCall ==
  [op |-> "init", cellRef |-> <<>>, formula |-> UNDEF, value |-> Undefined,
   result |-> Undefined, thrown |-> FALSE, recomputed |-> <<>>,
   repeat |-> FALSE]

\* no updateCellData call in progress
NoWalk ==
  [active |-> FALSE, cellRef |-> <<>>, value |-> Undefined, formula |-> UNDEF,
   stack |-> <<>>, visited |-> {}, recomputed |-> <<>>, expanded |-> <<>>]

Init ==
  /\ cellData \in InitialStores
  /\ dependencyGraph = <<>>
  /\ last = NoCall
  /\ steps = 0
  /\ walk = NoWalk
  /\ StoreCreated
  /\ LoaderCreated

\* engine.calculate(formula, cellRef)
Calculate(formula, cellRef) ==
  /\ steps < MaxSteps
  /\ \E c \in {calculate(formula, cellRef, Engine(cellData, dependencyGraph))} :
        /\ cellData' = c.cellData
        /\ dependencyGraph' = c.dependencyGraph
        /\ last' = Call("calculate", cellRef, formula, Undefined, c.result,
                        c.thrown, <<>>)
  /\ steps' = steps + 1
  /\ UNCHANGED <<walk, others>>

\* engine.updateCellData(cellRef, value, formula); formula = UNDEF when the
\* third argument is left out
UpdateCellData(cellRef, value, formula) ==
  /\ steps < MaxSteps
  /\ \E w \in {updateCellData(cellRef, value, formula,
                                Engine(cellData, dependencyGraph))} :
        /\ cellData' = w.eng.cellData
        /\ dependencyGraph' = w.eng.dependencyGraph
        /\ last' = Call("updateCellData", cellRef, formula, value, Undefined,
                        FALSE, w.recomputed)
  /\ steps' = steps + 1
  /\ UNCHANGED <<walk, others>>

\* engine.checkCircularDependency(cellRef): a read-only probe
CheckCircularDependency(cellRef) ==
  /\ last' = Call("checkCircularDependency", cellRef, UNDEF, Undefined,
                  Bool(checkCircularDependency(cellRef, dependencyGraph)),
                  FALSE, <<>>)
  /\ UNCHANGED <<cellData, dependencyGraph, steps, walk, others>>

Next ==
  \/ \E f \in CalculateFormulas, c \in CellRefs : Calculate(f, c)
  \/ \E c \in CellRefs, v \in Values, f \in Formulas \cup {UNDEF} :
       UpdateCellData(c, v, f)
  \/ \E c \in CellRefs : CheckCircularDependency(c)

Spec == Init /\ [][Next]_vars

(***************************************************************************)
(* calculate as a function of the formula text: one call on a fresh engine *)
(* over a store whose cell A1 holds one of several kinds of value.         *)
(***************************************************************************)
\* largest integer operand of a generated formula
MaxOperand == 2

\* largest number of arguments of a generated function call
MaxArgs == 4

Operands == {NatToStr(n) : n \in 0..MaxOperand}

InfixOperators == {"+", "-", "*", "/", "%"}

\* "=a o1 b o2 c", "=(a o1 b) o2 c" and "=a o1 (b o2 c)"
ChainFormulas ==
  UNION { { <<"=">> \o a \o <<o1>> \o b \o <<o2>> \o c,
            <<"=", "(">> \o a \o <<o1>> \o b \o <<")", o2>> \o c,
            <<"=">> \o a \o <<o1, "(">> \o b \o <<o2>> \o c \o <<")">> } :
          a \in Operands, b \in Operands, c \in Operands,
          o1 \in InfixOperators, o2 \in InfixOperators }

\* "=a^b^c"
PowerFormula(a, b, c) ==
  <<"=">> \o NatToStr(a) \o <<"^">> \o NatToStr(b) \o <<"^">> \o NatToStr(c)

PowerFormulas ==
  { PowerFormula(a, b, c) : a \in 1..MaxOperand, b \in {2, 3}, c \in {1, 2} }

Quoted(s) == <<"\"">> \o s \o <<"\"">>

\* right operands of a division: literals, cell references, strings
DivisionRights ==
  {<<"0">>, <<"2">>, A1, B1, Quoted(<<"a", "b", "c">>), Quoted(<<"2">>),
   Quoted(<<>>), <<"(", "1", "-", "1", ")">>}

\* "=l/r"
DivisionFormula(l, r) == <<"=">> \o l \o <<"/">> \o r

DivisionFormulas ==
  { DivisionFormula(l, r) : l \in Operands, r \in DivisionRights }

FunctionNames ==
  { <<"I", "F">>, <<"A", "B", "S">>, <<"S", "Q", "R", "T">>,
    <<"R", "O", "U", "N", "D">>, <<"P", "O", "W", "E", "R">>,
    <<"S", "U", "M">>, <<"C", "O", "U", "N", "T">>, <<"F", "O", "O">>,
    <<"S", "q", "r", "t">>, <<"V", "L", "O", "O", "K", "U", "P">> }

RECURSIVE ArgumentText(_)
\* "1,2,...,k"
ArgumentText(k) ==
  IF k = 0 THEN <<>>
  ELSE IF k = 1 THEN NatToStr(1)
  ELSE ArgumentText(k - 1) \o <<",">> \o NatToStr(k)

\* "=NAME(1,...,k)"
FunctionFormula(name, k) ==
  <<"=">> \o name \o <<"(">> \o ArgumentText(k) \o <<")">>

FunctionFormulas ==
  { FunctionFormula(name, k) : name \in FunctionNames, k \in 0..MaxArgs }

\* texts the lexer, the parser or the evaluator rejects or cuts short
MalformedFormulas ==
  { <<>>, <<"=">>, <<"=", "1", "+">>, <<"=", "(", "1", "+", "2">>,
    <<"=", "#">>, <<"=", ")">>, <<"=", "*", "2">>, <<"=", "A", "1", ":", "B", "2">>,
    <<"=", "$", "A", "$", "1">>, <<"=", "S", "U", "M">>,
    <<"=", "S", "U", "M", "(", "1", ",">>, <<"=", "I", "F", "(", "1", "/", "0", ")">>,
    <<" ", "=", "1", " ", "2", " ">>, <<"=", "\"", "a">>, <<"=", "1", ".", ".", "2">>,
    <<"=", "-", "-", "1">>, <<"=", "^">>, <<"=", "A", "0">> }

A2 == <<"A", "2">>

\* "=SUM(A1:A2)": a function call over a range reference
SumRangeFormula ==
  <<"=", "S", "U", "M", "(">> \o A1 \o <<":">> \o A2 \o <<")">>

\* texts with a function name not followed by "(", or with a group or an
\* argument list not closed by ")": "=SUM)1)", "=(1+2(", "=SUM 1", "=SUM(1",
\* "=(1+2", "=ABS(1(", "=SUM,1)"
ParenthesisMismatches ==
  { <<"=", "S", "U", "M", ")", "1", ")">>, <<"=", "(", "1", "+", "2", "(">>,
    <<"=", "S", "U", "M", " ", "1">>, <<"=", "S", "U", "M", "(", "1">>,
    <<"=", "(", "1", "+", "2">>, <<"=", "A", "B", "S", "(", "1", "(">>,
    <<"=", "S", "U", "M", ",", "1", ")">> }

\* texts with tokens after a complete expression: "=1)", "=1 2", "=1(",
\* "=A1 B1", "=1,2", "=(1)2"
TrailingFormulas ==
  { <<"=", "1", ")">>, <<"=", "1", " ", "2">>, <<"=", "1", "(">>,
    <<"=", "A", "1", " ", "B", "1">>, <<"=", "1", ",", "2">>,
    <<"=", "(", "1", ")", "2">> }

\* built-in names in upper, capitalised and lower case
CaseNames ==
  { <<"S", "U", "M">>, <<"S", "u", "m">>, <<"s", "u", "m">>,
    <<"M", "A", "X">>, <<"M", "a", "x">>, <<"m", "a", "x">>,
    <<"A", "B", "S">>, <<"A", "b", "s">>, <<"a", "b", "s">> }

\* "=name(1)" and "=name(1,2)"
CaseFormulas == { FunctionFormula(name, k) : name \in CaseNames, k \in 1..2 }

\* column letters and row numbers of the references read
ReferenceLetters ==
  { <<"A">>, <<"B">>, <<"Z">>, <<"A", "A">>, <<"A", "Z">>, <<"B", "A">>,
    <<"B", "C">>, <<"Z", "Z">> }

ReferenceRows == {1, 2, 10, 23}

\* the reference text, "BC23" for the letters BC and the row 23
ReferenceText(letters, n) == letters \o NatToStr(n)

\* "=BC23"
ReferenceFormula(letters, n) == <<"=">> \o ReferenceText(letters, n)

ReferenceFormulas ==
  { ReferenceFormula(l, n) : l \in ReferenceLetters, n \in ReferenceRows }

\* texts starting like a reference that are not letters followed by
\* digits: "=A1:B2", "=A1:", "=A:1", "=A1B", "=A$1", "=A1:B2:C3", "=AB"
BadReferenceFormulas ==
  { <<"=", "A", "1", ":", "B", "2">>, <<"=", "A", "1", ":">>,
    <<"=", "A", ":", "1">>, <<"=", "A", "1", "B">>, <<"=", "A", "$", "1">>,
    <<"=", "A", "1", ":", "B", "2", ":", "C", "3">>, <<"=", "A", "B">> }

\* texts that read A1 through an arithmetic operator or a numeric
\* function: "=A1+1", "=1-A1", "=A1*2", "=A1%2", "=-A1", "=A1^2",
\* "=SUM(A1,2)", "=ABS(A1)", "=MAX(A1,1)", "=AVERAGE(A1,2)", "=2/A1"
ArithmeticReads ==
  { <<"=", "A", "1", "+", "1">>, <<"=", "1", "-", "A", "1">>,
    <<"=", "A", "1", "*", "2">>, <<"=", "A", "1", "%", "2">>,
    <<"=", "-", "A", "1">>, <<"=", "^", "2", "A", "1">>,
    <<"=", "S", "U", "M", "(", "A", "1", ",", "2", ")">>,
    <<"=", "A", "B", "S", "(", "A", "1", ")">>,
    <<"=", "M", "A", "X", "(", "A", "1", ",", "1", ")">>,
    <<"=", "A", "V", "E", "R", "A", "G", "E", "(", "A", "1", ",", "2", ")">>,
    <<"=", "2", "/", "A", "1">> }

CalcFormulas ==
  ChainFormulas \cup PowerFormulas \cup DivisionFormulas
    \cup FunctionFormulas \cup MalformedFormulas \cup {SumRangeFormula}
    \cup ParenthesisMismatches \cup TrailingFormulas \cup CaseFormulas
    \cup ReferenceFormulas \cup BadReferenceFormulas \cup ArithmeticReads

\* the rank of the letters read as a base-26 numeral with A = 1
Base26(letters) ==
  IF Len(letters) = 1 THEN IndexIn(letters[1], UpperSeq)
  ELSE 26 * IndexIn(letters[1], UpperSeq) + IndexIn(letters[2], UpperSeq)

\* the store key of row n, column of the letters l
ReferenceKey(l, n) == StoreKey(n - 1, Base26(l) - 1)

\* a store with a different number in each cell of ReferenceFormulas, under
\* the key of its 0-based row and column
ReferenceStore ==
  [ key \in { ReferenceKey(l, n) :
                l \in ReferenceLetters, n \in ReferenceRows } |->
      LET c == CHOOSE c \in ReferenceLetters \X ReferenceRows :
                 ReferenceKey(c[1], c[2]) = key
      IN Entry(Num(1000 * c[2] + Base26(c[1])), UNDEF) ]

\* what cell A1 may hold when the formula is calculated
CalcStores ==
  { <<>> } \cup
  { Put(<<>>, KeyA1, Entry(v, UNDEF)) :
      v \in {Num(0), Num(2), Str(<<"a", "b", "c">>), Bool(FALSE),
             ErrorValue} } \cup
  { ReferenceStore }

CalcCell == <<"X">>

InitCalc ==
  /\ cellData \in CalcStores
  /\ dependencyGraph = <<>>
  /\ last = NoCall
  /\ steps = 0
  /\ walk = NoWalk
  /\ StoreCreated
  /\ LoaderCreated

NextCalc == \E f \in CalcFormulas : steps = 0 /\ Calculate(f, CalcCell)

SpecCalc == InitCalc /\ [][NextCalc]_vars

(***************************************************************************)
(* updateCellData with the while loop of recalculateDependents followed    *)
(* pass by pass: the call begins, the loop makes its passes, the call      *)
(* returns once the stack is empty.                                        *)
(***************************************************************************)
\* calls of updateCellData made on one engine
MaxUpdates == 3

C1 == <<"C", "1">>

FormulaC1Plus1 == <<"=", "C", "1", "+", "1">>

WalkCells == {A1, B1, C1}

WalkFormulas == {FormulaA1Plus1, FormulaB1Plus1, FormulaC1Plus1}

\* the call updateCellData(cellRef, value, formula) at the walk state w
Running(cellRef, value, formula, w) ==
  [active |-> TRUE, cellRef |-> cellRef, value |-> value, formula |-> formula,
   stack |-> w.stack, visited |-> w.visited, recomputed |-> w.recomputed,
   expanded |-> w.expanded]

\* updateCellData up to the while loop of recalculateDependents
BeginUpdate(cellRef, value, formula) ==
  /\ ~walk.active
  /\ steps < MaxUpdates
  /\ \E w \in {StartWalk(cellRef,
                           UpdatedEngine(cellRef, value, formula,
                                         Engine(cellData, dependencyGraph)))} :
        /\ cellData' = w.eng.cellData
        /\ dependencyGraph' = w.eng.dependencyGraph
        /\ walk' = Running(cellRef, value, formula, w)
  /\ steps' = steps + 1
  /\ UNCHANGED <<last, others>>

\* one pass of the while loop
WalkStep ==
  /\ walk.active
  /\ walk.stack # <<>>
  /\ \E w \in {RecalculateStep(Walk(Engine(cellData, dependencyGraph),
                                      walk.stack, walk.visited,
                                      walk.recomputed, walk.expanded))} :
        /\ cellData' = w.eng.cellData
        /\ dependencyGraph' = w.eng.dependencyGraph
        /\ walk' = Running(walk.cellRef, walk.value, walk.formula, w)
  /\ UNCHANGED <<last, steps, others>>

\* the loop ends on the empty stack and the call returns
WalkReturn ==
  /\ walk.active
  /\ walk.stack = <<>>
  /\ walk' = [walk EXCEPT !.active = FALSE]
  /\ last' = Call("updateCellData", walk.cellRef, walk.formula, walk.value,
                  Undefined, FALSE, walk.recomputed)
  /\ UNCHANGED <<cellData, dependencyGraph, steps, others>>

NextWalk ==
  \/ \E c \in WalkCells, v \in Values, f \in WalkFormulas \cup {UNDEF} :
       BeginUpdate(c, v, f)
  \/ WalkStep
  \/ WalkReturn

SpecWalk == Init /\ [][NextWalk]_vars

(***************************************************************************)
(* tokenize as a function of the input string: one call of the lexer on    *)
(* every text over a small alphabet with a character for each branch of    *)
(* the scan.                                                               *)
(***************************************************************************)
\* longest text handed to the lexer
MaxText == 4

\* a digit, the dot, the quote, an uppercase and a lowercase letter, an
\* operator, a parenthesis, the comma, a blank and a character of no token
LexChars == {"1", ".", "\"", "A", "a", "+", "(", ",", " ", "#"}

LexTexts == UNION { [1..n -> LexChars] : n \in 0..MaxText }

\* new FormulaLexer(input).tokenize(): `result` holds the tokens returned
Tokenize(input) ==
  /\ steps = 0
  /\ last' = [Call("tokenize", <<>>, input, Undefined, Undefined, FALSE, <<>>)
                EXCEPT !.result = tokenize(input)]
  /\ steps' = steps + 1
  /\ UNCHANGED <<cellData, dependencyGraph, walk, others>>

NextLex == \E input \in LexTexts : Tokenize(input)

SpecLex == Init /\ [][NextLex]_vars

(***************************************************************************)
(* The Vuex store of the workbook: its mutations and the actions            *)
(* updateCell, deleteCell, undo and redo as functions of the store state.   *)
(* A worksheet's cells are a function from "row,col" keys to cell data; a   *)
(* key outside its domain is an absent cell.  The timestamp of a history    *)
(* entry is never read and is left out.                                     *)
(***************************************************************************)
\* if (state.history.length > 100)
HistoryLimit == 100

\* cells[key] of a key the worksheet does not hold
NoCell == "undefined"

CellAt(cells, key) == IF key \in DOMAIN cells THEN cells[key] ELSE NoCell

\* Vue.delete(worksheet.cells, key)
Remove(map, k) == [x \in DOMAIN map \ {k} |-> map[x]]

\* state.worksheets[worksheetIndex] is a worksheet
HasWorksheet(s, worksheetIndex) ==
  worksheetIndex \in 0..(Len(s.worksheets) - 1)

\* the cells of the active worksheet
ActiveCells(s) == s.worksheets[s.activeWorksheetIndex + 1].cells

\* mutation SET_CELL_DATA
SET_CELL_DATA(s, worksheetIndex, row, col, data) ==
  IF HasWorksheet(s, worksheetIndex)
  THEN [s EXCEPT !.worksheets[worksheetIndex + 1].cells =
                    Put(@, StoreKey(row, col), data)]
  ELSE s

\* mutation DELETE_CELL_DATA
DELETE_CELL_DATA(s, worksheetIndex, row, col) ==
  IF HasWorksheet(s, worksheetIndex)
  THEN [s EXCEPT !.worksheets[worksheetIndex + 1].cells =
                    Remove(@, StoreKey(row, col))]
  ELSE s

\* the history with the entry pushed on what slice(0, historyIndex + 1)
\* keeps, before the limit is applied
Pushed(s, entry) == Append(SubSeq(s.history, 1, s.historyIndex + 1), entry)

\* ADD_HISTORY_ENTRY that pushes on the whole history, redo entries kept
ADD_HISTORY_ENTRY_Keeping(s, entry) ==
  IF Len(s.history) + 1 > HistoryLimit
  THEN [s EXCEPT !.history = Tail(Append(s.history, entry)),
                 !.historyIndex = Len(s.history) - 1]
  ELSE [s EXCEPT !.history = Append(s.history, entry),
                 !.historyIndex = Len(s.history)]

\* mutation ADD_HISTORY_ENTRY
ADD_HISTORY_ENTRY(s, entry) ==
  IF Len(Pushed(s, entry)) > HistoryLimit
  THEN [s EXCEPT !.history = Tail(Pushed(s, entry)),
                 !.historyIndex = Len(Pushed(s, entry)) - 1 - 1]
  ELSE [s EXCEPT !.history = Pushed(s, entry),
                 !.historyIndex = Len(Pushed(s, entry)) - 1]

\* mutation UNDO
UNDO(s) ==
  IF s.historyIndex >= 0 THEN [s EXCEPT !.historyIndex = @ - 1] ELSE s

\* mutation REDO
REDO(s) ==
  IF s.historyIndex < Len(s.history) - 1
  THEN [s EXCEPT !.historyIndex = @ + 1]
  ELSE s

\* { action: 'edit', data: { row, col, oldData, newData } }
EditEntry(row, col, oldData, newData) ==
  [action |-> "edit",
   data |-> [row |-> row, col |-> col, oldData |-> oldData,
             newData |-> newData]]

\* { action: 'delete', data: { row, col, oldData } }
DeleteEntry(row, col, oldData) ==
  [action |-> "delete",
   data |-> [row |-> row, col |-> col, oldData |-> oldData]]

\* state.history[state.historyIndex]
CurrentEntry(s) == s.history[s.historyIndex + 1]

\* action updateCell
updateCell(s, row, col, data) ==
  SET_CELL_DATA(
    ADD_HISTORY_ENTRY(s, EditEntry(row, col,
                                   CellAt(ActiveCells(s), StoreKey(row, col)),
                                   data)),
    s.activeWorksheetIndex, row, col, data)

\* action deleteCell
deleteCell(s, row, col) ==
  IF CellAt(ActiveCells(s), StoreKey(row, col)) # NoCell
  THEN DELETE_CELL_DATA(
         ADD_HISTORY_ENTRY(s, DeleteEntry(row, col,
                                          CellAt(ActiveCells(s),
                                                 StoreKey(row, col)))),
         s.activeWorksheetIndex, row, col)
  ELSE s

\* the switch of undo over the entry
UndoEntry(s, entry) ==
  CASE entry.action = "edit" ->
         IF entry.data.oldData # NoCell
         THEN SET_CELL_DATA(s, s.activeWorksheetIndex, entry.data.row,
                            entry.data.col, entry.data.oldData)
         ELSE DELETE_CELL_DATA(s, s.activeWorksheetIndex, entry.data.row,
                               entry.data.col)
    [] entry.action = "delete" ->
         SET_CELL_DATA(s, s.activeWorksheetIndex, entry.data.row,
                       entry.data.col, entry.data.oldData)
    [] OTHER -> s

\* undo that steps back in the history without touching the cells
undoIndexOnly(s) == UNDO(s)

\* action undo
undo(s) ==
  IF s.historyIndex >= 0 THEN UNDO(UndoEntry(s, CurrentEntry(s))) ELSE s

\* the switch of redo over the entry
RedoEntry(s, entry) ==
  CASE entry.action = "edit" ->
         SET_CELL_DATA(s, s.activeWorksheetIndex, entry.data.row,
                       entry.data.col, entry.data.newData)
    [] entry.action = "delete" ->
         DELETE_CELL_DATA(s, s.activeWorksheetIndex, entry.data.row,
                          entry.data.col)
    [] OTHER -> s

\* action redo
redo(s) ==
  IF s.historyIndex < Len(s.history) - 1
  THEN RedoEntry(REDO(s), CurrentEntry(REDO(s)))
  ELSE s

(***************************************************************************)
(* The history under its three mutations, committed in any order.          *)
(***************************************************************************)
\* delete entries the history holds at a time
MaxDeletes == 1

\* the entries committed: an edit and a delete of cell 0,0
HistoryEntries == {EditEntry(0, 0, NoCell, "x"), DeleteEntry(0, 0, "x")}

Deletes(h) == {i \in 1..Len(h) : h[i].action = "delete"}

\* what the formula engine and the loader hold, untouched by the store
beside == <<cellData, dependencyGraph, steps, walk, loader, loadFn, callers>>

\* the store as created, beside an engine over an empty value store
InitStore ==
  /\ cellData = <<>>
  /\ dependencyGraph = <<>>
  /\ last = NoCall
  /\ steps = 0
  /\ walk = NoWalk
  /\ StoreCreated
  /\ LoaderCreated

\* commit('ADD_HISTORY_ENTRY', entry)
CommitAddHistoryEntry(entry) ==
  /\ entry.action = "delete" =>
       Cardinality(Deletes(state.history)) < MaxDeletes
  /\ state' = ADD_HISTORY_ENTRY(state, entry)
  /\ last' = [op |-> "ADD_HISTORY_ENTRY", entry |-> entry]
  /\ UNCHANGED beside

\* commit('UNDO')
CommitUndo ==
  /\ state' = UNDO(state)
  /\ last' = [op |-> "UNDO"]
  /\ UNCHANGED beside

\* commit('REDO')
CommitRedo ==
  /\ state' = REDO(state)
  /\ last' = [op |-> "REDO"]
  /\ UNCHANGED beside

NextHistory ==
  \/ \E entry \in HistoryEntries : CommitAddHistoryEntry(entry)
  \/ CommitUndo
  \/ CommitRedo

SpecHistory == InitStore /\ [][NextHistory]_vars

(***************************************************************************)
(* The store under its actions updateCell, deleteCell, undo and redo on    *)
(* the active worksheet.  `last` records the latest dispatch: the key of   *)
(* the cell of the latest updateCell or deleteCell, the cell's content     *)
(* before and after it, whether it was an updateCell or found data in the  *)
(* cell, and for an undo or a redo whether it came right after that action *)
(* or its undo.                                                            *)
(***************************************************************************)
\* dispatches made on one store
MaxEdits == 4

CellRows == {0}

CellCols == {0, 1}

CellDatas == {"x", "y"}

CellActions == {"updateCell", "deleteCell"}

\* the record of a dispatch of updateCell or deleteCell on row, col
Edited(op, row, col, s, t) ==
  [op |-> op, key |-> StoreKey(row, col),
   before |-> CellAt(ActiveCells(s), StoreKey(row, col)),
   after |-> CellAt(ActiveCells(t), StoreKey(row, col)),
   recorded |-> op = "updateCell"
                  \/ CellAt(ActiveCells(s), StoreKey(row, col)) # NoCell,
   follows |-> last.op, rooted |-> TRUE]

\* the record of an undo or a redo; it continues the action of `last` when
\* it comes right after it
Followed(op, continues) ==
  IF continues
  THEN [op |-> op, key |-> last.key, before |-> last.before,
        after |-> last.after, recorded |-> last.recorded,
        follows |-> last.op, rooted |-> TRUE]
  ELSE [op |-> op, key |-> <<>>, before |-> NoCell, after |-> NoCell,
        recorded |-> FALSE, follows |-> last.op, rooted |-> FALSE]

\* dispatch('updateCell', { row, col, data })
UpdateCell(row, col, data) ==
  /\ steps < MaxEdits
  /\ state' = updateCell(state, row, col, data)
  /\ last' = Edited("updateCell", row, col, state, state')
  /\ steps' = steps + 1
  /\ UNCHANGED <<cellData, dependencyGraph, walk, loader, loadFn, callers>>

\* dispatch('deleteCell', { row, col })
DeleteCell(row, col) ==
  /\ steps < MaxEdits
  /\ state' = deleteCell(state, row, col)
  /\ last' = Edited("deleteCell", row, col, state, state')
  /\ steps' = steps + 1
  /\ UNCHANGED <<cellData, dependencyGraph, walk, loader, loadFn, callers>>

\* dispatch('undo')
Undo ==
  /\ steps < MaxEdits
  /\ state' = undo(state)
  /\ last' = Followed("undo", last.op \in CellActions)
  /\ steps' = steps + 1
  /\ UNCHANGED <<cellData, dependencyGraph, walk, loader, loadFn, callers>>

\* dispatch('redo')
Redo ==
  /\ steps < MaxEdits
  /\ state' = redo(state)
  /\ last' = Followed("redo", last.op = "undo" /\ last.rooted)
  /\ steps' = steps + 1
  /\ UNCHANGED <<cellData, dependencyGraph, walk, loader, loadFn, callers>>

NextStore ==
  \/ \E row \in CellRows, col \in CellCols, data \in CellDatas :
       UpdateCell(row, col, data)
  \/ \E row \in CellRows, col \in CellCols : DeleteCell(row, col)
  \/ Undo
  \/ Redo

SpecStore == InitStore /\ [][NextStore]_vars

(***************************************************************************)
(* LazyLoader.  `loader` holds the fields of the instance; a promise is    *)
(* named by the number of the loadFn call it chains on.  `loadFn` counts   *)
(* the calls of loadFn and keeps, by number, the calls whose promise is    *)
(* pending, fulfilled with its then-callback still to run, resolved        *)
(* through the callback, or rejected.  The k-th call of loadFn yields the  *)
(* value k; 0 stands for null.  `callers` holds one record per load()      *)
(* call: the promise it waits for and what it has resolved to.             *)
(***************************************************************************)
\* load() calls issued on one loader
MaxLoads == 5

\* a load() call that waits for the promise `awaits` (0: for none) and has
\* settled as `settled` ("pending", "fulfilled" or "rejected") with `result`
Caller(awaits, settled, result) ==
  [awaits |-> awaits, settled |-> settled, result |-> result]

\* what a load() call hands back: the loader after its synchronous part,
\* whether loadFn was called, and the caller's record
Loaded(l, called, caller) == [loader |-> l, called |-> called, caller |-> caller]

\* load() without the test of this.promise
loadUnshared(l, k) ==
  IF l.loaded THEN Loaded(l, FALSE, Caller(0, "fulfilled", l.value))
  ELSE Loaded([l EXCEPT !.promise = k], TRUE, Caller(k, "pending", 0))

\* LazyLoader.load up to its return; k numbers the loadFn call it would make
load(l, k) ==
  IF l.loaded THEN Loaded(l, FALSE, Caller(0, "fulfilled", l.value))
  ELSE IF l.promise # 0 THEN Loaded(l, FALSE, Caller(l.promise, "pending", 0))
  ELSE Loaded([l EXCEPT !.promise = k], TRUE, Caller(k, "pending", 0))

\* a caller issues load()
Load ==
  /\ Len(callers) < MaxLoads
  /\ \E r \in {load(loader, loadFn.calls + 1)} :
       /\ loader' = r.loader
       /\ loadFn' = IF r.called
                    THEN [loadFn EXCEPT !.calls = @ + 1,
                                        !.pending = @ \cup {loadFn.calls + 1}]
                    ELSE loadFn
       /\ callers' = Append(callers, r.caller)
  /\ UNCHANGED <<cellData, dependencyGraph, last, steps, walk, state>>

\* the promise of the k-th loadFn call fulfils
Fulfil(k) ==
  /\ k \in loadFn.pending
  /\ loadFn' = [loadFn EXCEPT !.pending = @ \ {k}, !.fulfilled = @ \cup {k}]
  /\ UNCHANGED <<cellData, dependencyGraph, last, steps, walk, state, loader,
                 callers>>

\* the promise of the k-th loadFn call rejects: the then-callback never runs
Reject(k) ==
  /\ k \in loadFn.pending
  /\ loadFn' = [loadFn EXCEPT !.pending = @ \ {k}, !.rejected = @ \cup {k}]
  /\ UNCHANGED <<cellData, dependencyGraph, last, steps, walk, state, loader,
                 callers>>

\* the then-callback of the k-th call runs
Then(k) ==
  /\ k \in loadFn.fulfilled
  /\ loader' = [loader EXCEPT !.value = k, !.loaded = TRUE, !.promise = 0]
  /\ loadFn' = [loadFn EXCEPT !.fulfilled = @ \ {k}, !.resolved = @ \cup {k}]
  /\ UNCHANGED <<cellData, dependencyGraph, last, steps, walk, state, callers>>

\* the promise a caller waits for has settled: the caller's call settles
Settle(i) ==
  /\ callers[i].settled = "pending"
  /\ callers[i].awaits \in loadFn.resolved \cup loadFn.rejected
  /\ callers' = [callers EXCEPT ![i] =
                   IF callers[i].awaits \in loadFn.resolved
                   THEN Caller(@.awaits, "fulfilled", @.awaits)
                   ELSE Caller(@.awaits, "rejected", 0)]
  /\ UNCHANGED <<cellData, dependencyGraph, last, steps, walk, state, loader,
                 loadFn>>

NextLoader ==
  \/ Load
  \/ \E k \in 1..MaxLoads : Fulfil(k)
  \/ \E k \in 1..MaxLoads : Reject(k)
  \/ \E k \in 1..MaxLoads : Then(k)
  \/ \E i \in 1..MaxLoads : i <= Len(callers) /\ Settle(i)

SpecLoader == InitStore /\ [][NextLoader]_vars

(***************************************************************************)
(* Properties                                                              *)
(***************************************************************************)
\* the store key the evaluator reads for the cell reference
KeyOf(cell) ==
  LET p == parseCellReference(cell) IN StoreKey(p.row, p.col)

\* formula f has a reference to the cell
Reads(f, cell) == cell \in Range(extractDependencies(f))

\* f evaluated over the store in which the cell holds v
ValueWith(f, cell, v, store) ==
  calculate(f, CalcCell,
            Engine(Put(store, KeyOf(cell), Entry(v, UNDEF)), <<>>)).result

\* C1: after updateCellData(A, v), every other cell B whose stored formula
\* reads A holds the value of that formula evaluated with A = v.
C1_DependencyPropagation ==
  (last.op = "updateCellData" /\ last.formula = UNDEF) =>
    \A b \in DOMAIN cellData \ {last.cellRef} :
      (TruthyStr(cellData[b].formula)
         /\ Reads(cellData[b].formula, last.cellRef)) =>
        cellData[b].value =
          ValueWith(cellData[b].formula, last.cellRef, last.value, cellData)

\* C2: calculate("=a^b^c") returns a^(b^c).
C2_PowerRightAssociative ==
  last.op = "calculate" =>
    \A a \in 1..MaxOperand, b \in {2, 3}, c \in {1, 2} :
      last.formula = PowerFormula(a, b, c) =>
        last.result = Pow(Num(a), Pow(Num(b), Num(c)))

Literal(ch) == Value(Num(DigitVal(ch)))

\* one operator applied to two results; a failed operand fails the whole
Apply(o, l, r) ==
  IF ~l.ok \/ ~r.ok THEN EvalError ELSE BinaryOpResult(<<o>>, l.val, r.val)

\* what calculate returns for an evaluation result
Returned(r) == IF r.ok THEN r.val ELSE ErrorValue

Precedence(o) == IF o \in {"*", "/", "%"} THEN 2 ELSE 1

IsFlatChain(f) ==
  /\ Len(f) = 6 /\ f[1] = "="
  /\ f[2] \in Digit /\ f[3] \in InfixOperators /\ f[4] \in Digit
  /\ f[5] \in InfixOperators /\ f[6] \in Digit

IsLeftGrouped(f) ==
  /\ Len(f) = 8 /\ f[1] = "=" /\ f[2] = "("
  /\ f[3] \in Digit /\ f[4] \in InfixOperators /\ f[5] \in Digit
  /\ f[6] = ")" /\ f[7] \in InfixOperators /\ f[8] \in Digit

IsRightGrouped(f) ==
  /\ Len(f) = 8 /\ f[1] = "="
  /\ f[2] \in Digit /\ f[3] \in InfixOperators /\ f[4] = "("
  /\ f[5] \in Digit /\ f[6] \in InfixOperators /\ f[7] \in Digit
  /\ f[8] = ")"

\* C3: "=a o1 b o2 c" groups to the right exactly when o2 binds tighter than
\* o1 and to the left otherwise, and parentheses fix the grouping.
C3_Precedence ==
  last.op = "calculate" =>
    LET f == last.formula
    IN /\ IsFlatChain(f) =>
            last.result =
              Returned(IF Precedence(f[5]) > Precedence(f[3])
                       THEN Apply(f[3], Literal(f[2]),
                                  Apply(f[5], Literal(f[4]), Literal(f[6])))
                       ELSE Apply(f[5],
                                  Apply(f[3], Literal(f[2]), Literal(f[4])),
                                  Literal(f[6])))
       /\ IsLeftGrouped(f) =>
            last.result =
              Returned(Apply(f[7], Apply(f[4], Literal(f[3]), Literal(f[5])),
                             Literal(f[8])))
       /\ IsRightGrouped(f) =>
            last.result =
              Returned(Apply(f[3], Literal(f[2]),
                             Apply(f[6], Literal(f[5]), Literal(f[7]))))

\* "=1+2*2" has been calculated to 5 and "=2-1-1" to 0
C3_Witness ==
  /\ last.op = "calculate"
  /\ \/ last.formula = <<"=", "1", "+", "2", "*", "2">> /\ last.result = Num(5)
     \/ last.formula = <<"=", "2", "-", "1", "-", "1">> /\ last.result = Num(0)

\* C4: calculate hands back a value or "#ERROR"; no Error leaves the call.
C4_CalculateTotal ==
  last.op = "calculate" =>
    /\ ~last.thrown
    /\ last.result.t \in {"num", "inf", "nan", "irr", "str", "bool"}

\* a formula the parser rejects has been calculated to the sentinel
C4_Witness ==
  /\ last.op = "calculate"
  /\ last.formula = <<"=", "(", "1", "+", "2">>
  /\ last.result = ErrorValue
  /\ ~last.thrown

\* the coerced value of the operand text r over the store
CoercedOperand(r, store) ==
  toNumber(evaluate(parse(tokenize(r)).node, store).val)

\* C5: "=l/r" is "#ERROR" exactly when the coerced right operand is 0; a
\* literal 0, an empty cell, a non-numeric string and false are such.
C5_DivisionByZero ==
  last.op = "calculate" =>
    \A l \in Operands, r \in DivisionRights :
      last.formula = DivisionFormula(l, r) =>
        /\ (last.result = ErrorValue) = IsZero(CoercedOperand(r, cellData))
        /\ r \in {<<"0">>, Quoted(<<"a", "b", "c">>)} =>
             last.result = ErrorValue
        /\ (r = B1 /\ KeyOf(B1) \notin DOMAIN cellData) =>
             last.result = ErrorValue
        /\ (r = A1 /\ KeyA1 \in DOMAIN cellData
              /\ cellData[KeyA1].value \in {Bool(FALSE), Str(<<"a", "b", "c">>)})
             => last.result = ErrorValue
        /\ r = <<"2">> => last.result = Div(Num(DigitVal(l[1])), Num(2))

\* "=1/A1" has been calculated to the sentinel while A1 holds false
C5_Witness ==
  /\ last.op = "calculate"
  /\ last.formula = DivisionFormula(<<"1">>, A1)
  /\ KeyA1 \in DOMAIN cellData
  /\ cellData[KeyA1].value = Bool(FALSE)
  /\ last.result = ErrorValue

\* the built-ins of fixed arity
FixedArity ==
  [n \in {<<"I", "F">>, <<"A", "B", "S">>, <<"S", "Q", "R", "T">>,
          <<"R", "O", "U", "N", "D">>, <<"P", "O", "W", "E", "R">>} |->
     CASE n = <<"I", "F">> -> 3
       [] n \in {<<"A", "B", "S">>, <<"S", "Q", "R", "T">>} -> 1
       [] OTHER -> 2]

\* names that are no built-in in any letter case
UnknownNames == {<<"F", "O", "O">>, <<"V", "L", "O", "O", "K", "U", "P">>}

DependenciesOf(graph, c) ==
  IF c \in DOMAIN graph THEN Range(graph[c].dependencies) ELSE {}

RECURSIVE Closure(_, _)
\* the cells reachable from the set S over dependencies edges, S included
Closure(graph, S) ==
  LET next == S \cup UNION {DependenciesOf(graph, c) : c \in S}
  IN IF next = S THEN S ELSE Closure(graph, next)

\* the cells reachable from c over at least one dependencies edge
ReachableFrom(graph, c) == Closure(graph, DependenciesOf(graph, c))

\* some cell reachable from c, c included, lies on a cycle
CycleReachable(graph, c) ==
  \E n \in {c} \cup ReachableFrom(graph, c) : n \in ReachableFrom(graph, n)

\* C7: checkCircularDependency(c) is true exactly when a cycle of
\* dependencies edges is reachable from c.
C7_CycleDetection ==
  last.op = "checkCircularDependency" =>
    last.result = Bool(CycleReachable(dependencyGraph, last.cellRef))

\* A1 and B1 read each other and the probe of A1 has answered true
C7_Witness ==
  /\ last.op = "checkCircularDependency"
  /\ last.cellRef = A1
  /\ A1 \in DependenciesOf(dependencyGraph, B1)
  /\ B1 \in DependenciesOf(dependencyGraph, A1)
  /\ last.result = Bool(TRUE)

\* C8: a calculate that repeats the call before it returns the same result
\* and leaves the dependency graph as the first call left it.
C8_CalculateIdempotent ==
  [][(last.op = "calculate" /\ last'.op = "calculate" /\ last'.repeat
        /\ cellData' = cellData)
       => (last'.result = last.result /\ dependencyGraph' = dependencyGraph)]_vars

\* calculate has been called twice in a row for a formula with a reference
C8_Witness ==
  /\ last.op = "calculate"
  /\ last.repeat
  /\ last.result # ErrorValue
  /\ DependenciesOf(dependencyGraph, last.cellRef) # {}

\* C9: a step of calculate leaves every entry of the value store as it was.
C9_CalculateKeepsStore ==
  [][last'.op = "calculate" => cellData' = cellData]_vars

\* a malformed formula has been calculated over a store that holds a cell
C9_Witness ==
  /\ last.op = "calculate"
  /\ last.formula = FormulaUnclosed
  /\ last.result = ErrorValue
  /\ DOMAIN cellData # {}

\* C10: every dependencies edge A -> d has a node for d with A among its
\* dependents.
C10_GraphSymmetry ==
  \A a \in DOMAIN dependencyGraph :
    \A d \in Range(dependencyGraph[a].dependencies) :
      /\ d \in DOMAIN dependencyGraph
      /\ a \in Range(dependencyGraph[d].dependents)

\* two formula updates have made A1 and B1 read each other
C10_Witness ==
  /\ last.op = "updateCellData"
  /\ {A1, B1} \subseteq DOMAIN dependencyGraph
  /\ dependencyGraph[B1].dependencies = <<A1>>
  /\ dependencyGraph[A1].dependencies = <<B1>>

\* C11: X is among the dependents of Y only if Y is among the dependencies
\* of X: a formula update removes the reverse edges of references it drops.
C11_NoStaleReverseEdges ==
  \A y \in DOMAIN dependencyGraph :
    \A x \in Range(dependencyGraph[y].dependents) :
      /\ x \in DOMAIN dependencyGraph
      /\ y \in Range(dependencyGraph[x].dependencies)

\* the references of the formula the value store holds for the cell
StoredReferences(store, c) ==
  IF c \in DOMAIN store /\ TruthyStr(store[c].formula)
  THEN Range(extractDependencies(store[c].formula))
  ELSE {}

\* C12: after updateCellData(c, ...), the dependencies of c's node are the
\* references of the formula the store now holds for c, none without one.
C12_DependenciesMatchStore ==
  (last.op = "updateCellData" /\ last.cellRef \in DOMAIN dependencyGraph) =>
    Range(dependencyGraph[last.cellRef].dependencies)
      = StoredReferences(cellData, last.cellRef)

\* C13: a calculate that hands back "#ERROR" has still recorded an edge from
\* the cell to every reference of the formula text.
C13_DependenciesDespiteError ==
  (last.op = "calculate" /\ last.result = ErrorValue) =>
    \A d \in Range(extractDependencies(last.formula)) :
      /\ last.cellRef \in DOMAIN dependencyGraph
      /\ d \in Range(dependencyGraph[last.cellRef].dependencies)

\* C14: after updateCellData(c, v) without a formula, a node of c has no
\* dependencies and no formula.
C14_FormulaRemoval ==
  (/\ last.op = "updateCellData"
   /\ last.formula = UNDEF
   /\ last.cellRef \in DOMAIN dependencyGraph) =>
    /\ dependencyGraph[last.cellRef].dependencies = <<>>
    /\ ~TruthyStr(dependencyGraph[last.cellRef].formula)

\* the spreadsheet reference of the cell a caller's identifier names
ReferenceOf(id) == IF id = KeyA1 THEN A1 ELSE id

\* C15: after updateCellData(id, v, f) a formula that references the cell
\* reads v, and with a formula the cell's node is registered under the
\* reference other formulas use for it.
C15_ReadYourWrites ==
  last.op = "updateCellData" =>
    /\ evaluateCellRef(ReferenceOf(last.cellRef), cellData) = Value(last.value)
    /\ TruthyStr(last.formula) =>
         ReferenceOf(last.cellRef) \in DOMAIN dependencyGraph

\* C17: after updateCellData(c, v, f) the node of c holds the formula f.
C17_NodeFormulaTracks ==
  (last.op = "updateCellData" /\ TruthyStr(last.formula)) =>
    /\ last.cellRef \in DOMAIN dependencyGraph
    /\ dependencyGraph[last.cellRef].formula = last.formula

\* the value a reference to the cell evaluates to over the store
CellValue(cell, store) == evaluateCellRef(cell, store).val

\* C16: calculate("=SUM(A1:A2)") returns the sum of the values of A1 and A2.
C16_RangeArguments ==
  (last.op = "calculate" /\ last.formula = SumRangeFormula) =>
    last.result
      = SumOf(<<CellValue(A1, cellData), CellValue(A2, cellData)>>, 2)

\* the cells whose stored formula references the cell
FormulaReaders(store, cell) ==
  {x \in DOMAIN store :
     TruthyStr(store[x].formula) /\ Reads(store[x].formula, cell)}

RECURSIVE ReadersClosure(_, _)
\* S with the formula cells that read a cell of S, directly or through a
\* chain of formula cells
ReadersClosure(store, S) ==
  LET next == S \cup UNION {FormulaReaders(store, c) : c \in S}
  IN IF next = S THEN S ELSE ReadersClosure(store, next)

\* the formula cells that read the cell directly or transitively
TransitiveReaders(store, cell) ==
  ReadersClosure(store, FormulaReaders(store, cell))

\* an updateCellData call has returned
Returns == ~walk.active /\ last.op = "updateCellData"

\* C18: when updateCellData(c, ...) returns, every other formula cell that
\* reads c directly or transitively has been recomputed during the call.
C18_AtLeastOnce ==
  Returns =>
    \A x \in TransitiveReaders(cellData, last.cellRef) \ {last.cellRef} :
      x \in Range(last.recomputed)

NoRepeats(s) == \A i, j \in 1..Len(s) : s[i] = s[j] => i = j

\* C19: no cell has its dependents run through twice in one walk, and the
\* while loop of recalculateDependents makes finitely many passes, so that
\* every updateCellData call reaches its return.
C19_WalkTerminates ==
  /\ [](NoRepeats(walk.expanded))
  /\ <>[][~WalkStep]_vars

\* an update of a cell that references itself has returned: the walk
\* recomputed the cell, pushed it again and skipped it on the second pop
C19_Witness ==
  /\ Returns
  /\ last.cellRef = A1
  /\ A1 \in DependenciesOf(dependencyGraph, A1)
  /\ A1 \in Range(dependencyGraph[A1].dependents)
  /\ walk.recomputed = <<A1>>
  /\ walk.expanded = <<A1>>

\* no cell of the graph reaches itself over dependencies edges
Acyclic(graph) == \A n \in DOMAIN graph : n \notin ReachableFrom(graph, n)

\* C20: when updateCellData(c, ...) returns over an acyclic graph, every
\* other formula cell that reads c directly or transitively holds the value
\* of its formula over the final store.
C20_Convergence ==
  (Returns /\ Acyclic(dependencyGraph)) =>
    \A x \in TransitiveReaders(cellData, last.cellRef) \ {last.cellRef} :
      cellData[x].value
        = calculate(cellData[x].formula, x,
                    Engine(cellData, dependencyGraph)).result

\* the dependents of the cell in the graph
DependentsOf(graph, c) ==
  IF c \in DOMAIN graph THEN Range(graph[c].dependents) ELSE {}

RECURSIVE DependentsClosure(_, _)
\* S with the cells reachable from S over dependents edges
DependentsClosure(graph, S) ==
  LET next == S \cup UNION {DependentsOf(graph, c) : c \in S}
  IN IF next = S THEN S ELSE DependentsClosure(graph, next)

\* the cells reachable from the cell over one or more dependents edges
DependentsReachable(graph, c) ==
  DependentsClosure(graph, DependentsOf(graph, c))

\* the formula field of the store entry of the cell, if any
StoredFormula(store, k) ==
  IF k \in DOMAIN store THEN store[k].formula ELSE UNDEF

\* C21: updateCellData(c, v, f) changes no store entry other than c and the
\* formula cells reachable from c over dependents edges, and a recomputed
\* dependent keeps its stored formula.
C21_UpdateFrame ==
  [][last'.op = "updateCellData" =>
       /\ DOMAIN cellData \subseteq DOMAIN cellData'
       /\ \A k \in DOMAIN cellData' \ {last'.cellRef} :
            \/ k \in DOMAIN cellData /\ cellData'[k] = cellData[k]
            \/ /\ k \in DependentsReachable(dependencyGraph', last'.cellRef)
               /\ TruthyStr(dependencyGraph'[k].formula)
               /\ cellData'[k].formula = StoredFormula(cellData, k)
       /\ cellData'[last'.cellRef].formula = last'.formula]_vars

\* an update of A1 has recomputed B1, whose entry keeps its formula
C21_Witness ==
  /\ last.op = "updateCellData"
  /\ last.cellRef = A1
  /\ B1 \in Range(last.recomputed)
  /\ cellData[B1] = Entry(Num(1), FormulaA1Plus1)

\* C22: calculate returns "#ERROR" for a formula whose function name is not
\* followed by "(" or whose group or argument list is not closed by ")".
C22_ParenthesisMismatch ==
  (last.op = "calculate" /\ last.formula \in ParenthesisMismatches) =>
    last.result = ErrorValue

\* the parse result r of the tokens is a node with tokens other than EOF
\* left after it
LeavesTokens(tokens, r) ==
  r.ok /\ currentToken(tokens, r.pos).type # "EOF"

\* the top-level expression of the formula text ends before the last token
HasTrailingTokens(formula) ==
  LeavesTokens(tokenize(formula), parse(tokenize(formula)))

\* C23: calculate returns "#ERROR" whenever tokens other than EOF remain
\* after the top-level expression.
C23_WholeInput ==
  (last.op = "calculate" /\ HasTrailingTokens(last.formula)) =>
    last.result = ErrorValue

UpperChar(c) == IF c \in Lower THEN UpperSeq[IndexIn(c, LowerSeq)] ELSE c

\* the text with its letters in upper case
ToUpperCase(s) == [i \in 1..Len(s) |-> UpperChar(s[i])]

\* C24: calculate gives the same result whatever the letter case of the
\* function name: the result for the text equals the result for the text
\* with the name in upper case.
C24_CaseInsensitiveNames ==
  (last.op = "calculate" /\ last.formula \in CaseFormulas) =>
    last.result
      = calculate(ToUpperCase(last.formula), last.cellRef,
                  Engine(cellData, dependencyGraph)).result

\* the characters a token can start with
TokenStarts == Digit \cup Upper \cup OperatorChars \cup {"\"", "(", ")", ","}

StoredAt(store, row, col) ==
  IF StoreKey(row, col) \in DOMAIN store
     /\ Truthy(store[StoreKey(row, col)].value)
  THEN store[StoreKey(row, col)].value
  ELSE Num(0)

\* the cell the reference text decodes to
Decoded(row, col) == [ok |-> TRUE, row |-> row, col |-> col]

\* the decoding of the four references the specification names
NamedReferences(ref) ==
  /\ ref = <<"A", "1">> => parseCellReference(ref) = Decoded(0, 0)
  /\ ref = <<"Z", "1">> => parseCellReference(ref) = Decoded(0, 25)
  /\ ref = <<"A", "A", "1">> => parseCellReference(ref) = Decoded(0, 26)
  /\ ref = <<"B", "C", "2", "3">> => parseCellReference(ref) = Decoded(22, 54)

ZeroStore == Put(<<>>, KeyA1, Entry(Num(0), UNDEF))

\* C27: a formula that reads a cell holding "#ERROR" through an arithmetic
\* operator or a numeric function returns what it returns with 0 in that
\* cell: a number, or "#ERROR" when the evaluation with 0 fails itself.
C27_ErrorsAbsorbed ==
  (/\ last.op = "calculate"
   /\ last.formula \in ArithmeticReads
   /\ KeyA1 \in DOMAIN cellData
   /\ cellData[KeyA1].value = ErrorValue) =>
    /\ last.result
         = calculate(last.formula, last.cellRef,
                     Engine(ZeroStore, dependencyGraph)).result
    /\ last.result.t = "num" \/ last.formula = <<"=", "2", "/", "A", "1">>

\* "=A1+1" over a store whose A1 holds "#ERROR" has returned 1
C27_Witness ==
  /\ last.op = "calculate"
  /\ last.formula = <<"=", "A", "1", "+", "1">>
  /\ KeyA1 \in DOMAIN cellData
  /\ cellData[KeyA1].value = ErrorValue
  /\ last.result = Num(1)

\* C28: -1 <= historyIndex <= history.length - 1 and history.length <= 100
\* after any sequence of the three mutations; ADD_HISTORY_ENTRY leaves the
\* entries up to historyIndex followed by the new entry, without the oldest
\* one past the limit, and historyIndex on the new last entry.
C28_HistoryBounds ==
  /\ [](/\ -1 <= state.historyIndex
        /\ state.historyIndex <= Len(state.history) - 1
        /\ Len(state.history) <= HistoryLimit)
  /\ [][last'.op = "ADD_HISTORY_ENTRY" =>
          /\ state'.history
               = IF state.historyIndex + 2 > HistoryLimit
                 THEN Tail(SubSeq(state.history, 1, state.historyIndex + 1))
                        \o <<last'.entry>>
                 ELSE SubSeq(state.history, 1, state.historyIndex + 1)
                        \o <<last'.entry>>
          /\ state'.historyIndex = Len(state'.history) - 1]_vars

\* an entry has been added to a full history with entries to redo: the
\* history holds 100 entries again and the index is on the last one
C28_Witness ==
  /\ last.op = "ADD_HISTORY_ENTRY"
  /\ last.entry.action = "delete"
  /\ Len(state.history) = HistoryLimit
  /\ state.historyIndex = HistoryLimit - 1
  /\ state.history[HistoryLimit] = last.entry

\* the cell of the latest updateCell or deleteCell as the store holds it
EditedCell == CellAt(ActiveCells(state), last.key)

\* C29 as stated: undo right after updateCell or deleteCell leaves the cell
\* with its content before the action, and redo right after that undo
\* leaves it with its content after the action.
C29_UndoRedoRoundTrip ==
  /\ (last.op = "undo" /\ last.rooted) => EditedCell = last.before
  /\ (last.op = "redo" /\ last.rooted) => EditedCell = last.after

\* C29 amended: the round trip of an updateCell, and of a deleteCell of a
\* cell that holds data.
C29_RecordedRoundTrip ==
  /\ (last.op = "undo" /\ last.rooted /\ last.recorded) =>
       EditedCell = last.before
  /\ (last.op = "redo" /\ last.rooted /\ last.recorded) =>
       EditedCell = last.after

\* a cell holding "x" was deleted, the delete undone and redone: the cell is
\* absent again
C29_Witness ==
  /\ last.op = "redo"
  /\ last.rooted
  /\ last.recorded
  /\ last.before = "x"
  /\ last.after = NoCell
  /\ EditedCell = NoCell

\* C30: loadFn is called exactly once however many load() calls are issued,
\* every load() call that resolves resolves to the value of that one call,
\* and a load() issued once the loader has loaded calls nothing and resolves
\* to the cached value at once.
C30_SingleFlight ==
  /\ [](/\ loadFn.calls <= 1
        /\ callers # <<>> => loadFn.calls = 1
        /\ \A i \in 1..Len(callers) :
             callers[i].settled = "fulfilled" => callers[i].result = 1)
  /\ [][(loader.loaded /\ Len(callers') > Len(callers)) =>
          /\ loadFn' = loadFn
          /\ callers'[Len(callers')]
               = Caller(0, "fulfilled", loader.value)]_vars

\* two load() calls were issued before the load resolved and one after it;
\* loadFn was called once and the three calls have resolved to its value
C30_Witness ==
  /\ loadFn.calls = 1
  /\ callers = << Caller(1, "fulfilled", 1), Caller(1, "fulfilled", 1),
                  Caller(0, "fulfilled", 1) >>

=============================================================================
